---- MODULE Spec2Model ----
(***************************************************************************)
(* Model of the report layout and pagination engine of the vessel report   *)
(* generator: dashbored/generate_vessel_report.py (ReportPDFGenerator, the *)
(* section generators, generate_report_bytes) and the limit resolver of    *)
(* dashbored/report_utils.py.                                              *)
(*                                                                         *)
(* Conventions.  Python None is the empty tuple <<>> and a present value x *)
(* is <<x>>, except for current_section, where None is the string          *)
(* NoSection.  Vertical positions are points, as in the source.  Measured  *)
(* values and limits are in tenths (65 stands for 6.5).                    *)
(***************************************************************************)
EXTENDS Integers, Sequences, FiniteSets, TLC

VARIABLES
    pdf,            \* the ReportPDFGenerator object (cursor fields and canvas)
    catalog,        \* the parameter_limits table read by get_all_limits_for_equipment
    section_open,   \* caller protocol: TRUE between start_content_page(name) and end_section
    nops,           \* number of method calls issued so far
    last,           \* the last call: [op, empty, raised]
    run             \* generate_report_bytes: its inputs and its position

vars == <<pdf, catalog, section_open, nops, last, run>>

----------------------------------------------------------------------------
(* Bounds of the model *)

MaxOps == 5          \* method calls in one run of Spec
MaxRecords == 50     \* measurement records handed to one table (SpecTable)

----------------------------------------------------------------------------
(* Python values *)

None == <<>>
Some(x) == <<x>>
Val(o) == o[1]
NoSection == "None"

Min(a, b) == IF a < b THEN a ELSE b

(* the list with elements f[1], ..., f[n] *)
List(f, n) == SubSeq(f, 1, n)

----------------------------------------------------------------------------
(* Strings are sequences of one-character strings; "sub3" and "sub4" stand *)
(* for the subscript digits of CACO3 and SO4.  A missing (None) string and *)
(* the empty string are both <<>>: the source only tests their truth value.*)

LowerCase == <<"a", "b", "c", "d", "e", "f", "g", "h", "i", "j", "k", "l", "m",
               "n", "o", "p", "q", "r", "s", "t", "u", "v", "w", "x", "y", "z">>
UpperCase == <<"A", "B", "C", "D", "E", "F", "G", "H", "I", "J", "K", "L", "M",
               "N", "O", "P", "Q", "R", "S", "T", "U", "V", "W", "X", "Y", "Z">>
Digits == <<"0", "1", "2", "3", "4", "5", "6", "7", "8", "9">>
(* code point order of the characters the model uses *)
Alphabet == <<" ", "(", ")", "-", ".">> \o Digits \o UpperCase \o LowerCase \o <<"sub3", "sub4">>

IndexIn(seq, ch) == IF \E i \in 1..Len(seq) : seq[i] = ch
                    THEN CHOOSE i \in 1..Len(seq) : seq[i] = ch
                    ELSE 0

upper_ch(ch) == IF IndexIn(LowerCase, ch) > 0 THEN UpperCase[IndexIn(LowerCase, ch)] ELSE ch
lower_ch(ch) == IF IndexIn(UpperCase, ch) > 0 THEN LowerCase[IndexIn(UpperCase, ch)] ELSE ch
upper(s) == List([i \in 1..Len(s) |-> upper_ch(s[i])], Len(s))
lower(s) == List([i \in 1..Len(s) |-> lower_ch(s[i])], Len(s))

Contains(sub, s) == \E i \in 0..(Len(s) - Len(sub)) : SubSeq(s, i + 1, i + Len(sub)) = sub
StartsWith(s, pre) == Len(pre) <= Len(s) /\ SubSeq(s, 1, Len(pre)) = pre
EndsWith(s, suf) == Len(suf) <= Len(s) /\ SubSeq(s, Len(s) - Len(suf) + 1, Len(s)) = suf
Prefix(s, n) == SubSeq(s, 1, Min(n, Len(s)))

strip_nothing(s) == s

strip(s) ==
    LET solid == {i \in 1..Len(s) : s[i] # " "}
    IN  IF solid = {} THEN <<>>
        ELSE SubSeq(s, CHOOSE i \in solid : \A j \in solid : i <= j,
                       CHOOSE i \in solid : \A j \in solid : i >= j)

(* s < t in code point order (Python's order on str) *)
StrLess(s, t) ==
    \E k \in 1..(Len(t)) :
        /\ k <= Len(s) + 1
        /\ SubSeq(s, 1, k - 1) = SubSeq(t, 1, k - 1)
        /\ (k = Len(s) + 1 \/ IndexIn(Alphabet, s[k]) < IndexIn(Alphabet, t[k]))

----------------------------------------------------------------------------
(* report_utils.py: limit validation, name normalisation, limit lookup     *)

(* is_valid_limit.  An argument is None or a value [t, v]: a number        *)
(* (t = "num"), a string that float() parses to v ("numstr"), NaN or the   *)
(* string 'nan' ("nan"), any other string ("str": ValueError) or a value   *)
(* of another type ("obj": TypeError).  Comparisons with NaN are false.    *)
Number(limit) == IF limit = None THEN None ELSE Some([t |-> "num", v |-> Val(limit)])

is_valid_limit(ideal_low, ideal_high) ==
    IF ideal_low = None \/ ideal_high = None THEN FALSE
    ELSE LET float(x) == [raised |-> x.t \notin {"num", "numstr", "nan"},
                          nan    |-> x.t = "nan",
                          v      |-> x.v]
             low == float(Val(ideal_low))
             high == float(Val(ideal_high))
             zero == [raised |-> FALSE, nan |-> FALSE, v |-> 0]
             less(a, b) == ~a.nan /\ ~b.nan /\ a.v < b.v
         IN  IF low.raised \/ high.raised THEN FALSE
             ELSE IF less(low, zero) \/ less(high, zero) THEN FALSE
             ELSE IF less(high, low) THEN FALSE
             ELSE TRUE

normalize_upper_only(param_name, equipment_type) == strip(upper(param_name))

normalize_param_name_for_limits(param_name, equipment_type) ==
    IF param_name = <<>> THEN <<>>
    ELSE
    LET name == upper(param_name)
        eq == upper(equipment_type)
        alkalinity ==
            IF equipment_type # <<>> /\ (Contains(<<"B", "O", "I", "L", "E", "R">>, eq) \/ Contains(<<"E", "G", "E">>, eq))
               /\ (Contains(<<" ", "M">>, name) \/ EndsWith(name, <<"M">>) \/ Contains(<<"M", "-", "A", "L", "K">>, name) \/ Contains(<<"M", " ", "(">>, name))
            THEN <<"A", "L", "K", "A", "L", "I", "N", "I", "T", "Y", " ", "M">>
            ELSE IF equipment_type # <<>> /\ (Contains(<<"B", "O", "I", "L", "E", "R">>, eq) \/ Contains(<<"E", "G", "E">>, eq))
               /\ (Contains(<<" ", "P">>, name) \/ EndsWith(name, <<"P">>) \/ Contains(<<"P", "-", "A", "L", "K">>, name) \/ Contains(<<"P", " ", "(">>, name))
            THEN <<"A", "L", "K", "A", "L", "I", "N", "I", "T", "Y", " ", "P">>
            ELSE IF Contains(<<" ", "M", " ">>, name) \/ Contains(<<" ", "M", "(">>, name) \/ EndsWith(name, <<" ", "M">>) \/ name = <<"A", "L", "K", "A", "L", "I", "N", "I", "T", "Y", " ", "M">>
            THEN <<"T", "O", "T", "A", "L", " ", "A", "L", "K", "A", "L", "I", "N", "I", "T", "Y", " ", "(", "A", "S", " ", "C", "A", "C", "O", "sub3", ")">>
            ELSE IF Contains(<<" ", "P", " ">>, name) \/ Contains(<<" ", "P", "(">>, name) \/ EndsWith(name, <<" ", "P">>)
            THEN <<"A", "L", "K", "A", "L", "I", "N", "I", "T", "Y", " ", "P">>
            ELSE <<"T", "O", "T", "A", "L", " ", "A", "L", "K", "A", "L", "I", "N", "I", "T", "Y", " ", "(", "A", "S", " ", "C", "A", "C", "O", "sub3", ")">>
        chlorine ==
            IF Contains(<<"F", "R", "E", "E">>, name) THEN <<"F", "R", "E", "E", " ", "C", "H", "L", "O", "R", "I", "N", "E">>
            ELSE IF Contains(<<"T", "O", "T", "A", "L">>, name) THEN <<"T", "O", "T", "A", "L", " ", "C", "H", "L", "O", "R", "I", "N", "E">>
            ELSE IF Contains(<<"C", "O", "M", "B", "I", "N", "E", "D">>, name) THEN <<"C", "O", "M", "B", "I", "N", "E", "D", " ", "C", "H", "L", "O", "R", "I", "N", "E">>
            ELSE <<"T", "O", "T", "A", "L", " ", "C", "H", "L", "O", "R", "I", "N", "E">>
    IN  IF Contains(<<"S", "U", "L", "P", "H", "A", "T", "E">>, name) \/ Contains(<<"S", "U", "L", "F", "A", "T", "E">>, name)
            THEN <<"S", "U", "L", "P", "H", "A", "T", "E", " ", "(", "S", "O", "sub4", ")">>
        ELSE IF Contains(<<"P", "H", "O", "S", "P", "H", "A", "T">>, name)
            THEN <<"P", "H", "O", "S", "P", "H", "A", "T", "E">>
        ELSE IF Contains(<<"A", "L", "K", "A", "L", "I", "N", "I", "T", "Y">>, name) THEN alkalinity
        ELSE IF Contains(<<"C", "H", "L", "O", "R", "I", "D", "E">>, name)
            THEN <<"C", "H", "L", "O", "R", "I", "D", "E">>
        ELSE IF StartsWith(name, <<"P", "H">>) \/ Contains(<<" ", "P", "H">>, name) \/ Contains(<<"P", "H", "-">>, name) \/ name = <<"P", "H">>
            THEN <<"P", "H">>
        ELSE IF Contains(<<"C", "O", "N", "D", "U", "C", "T", "I", "V">>, name)
            THEN <<"C", "O", "N", "D", "U", "C", "T", "I", "V", "I", "T", "Y">>
        ELSE IF Contains(<<"D", "E", "H", "A">>, name)
            THEN <<"D", "E", "H", "A">>
        ELSE IF Contains(<<"H", "Y", "D", "R", "A", "Z", "I", "N", "E">>, name)
            THEN <<"H", "Y", "D", "R", "A", "Z", "I", "N", "E">>
        ELSE IF Contains(<<"N", "I", "T", "R", "I", "T", "E">>, name)
            THEN <<"N", "I", "T", "R", "I", "T", "E">>
        ELSE IF Contains(<<"H", "A", "R", "D", "N", "E", "S", "S">>, name) \/ Contains(<<"H", "A", "R", "D", "N">>, name)
            THEN <<"T", "O", "T", "A", "L", " ", "H", "A", "R", "D", "N", "E", "S", "S">>
        ELSE IF Contains(<<"C", "O", "D">>, name)
            THEN <<"C", "O", "D">>
        ELSE IF Contains(<<"B", "O", "D">>, name)
            THEN <<"B", "O", "D">>
        ELSE IF Contains(<<"T", "U", "R", "B", "I", "D", "I", "T", "Y">>, name)
            THEN <<"T", "U", "R", "B", "I", "D", "I", "T", "Y">>
        ELSE IF Contains(<<"S", "U", "S", "P", "E", "N", "D", "E", "D">>, name) \/ Contains(<<"T", "S", "S">>, name)
            THEN <<"T", "O", "T", "A", "L", " ", "S", "U", "S", "P", "E", "N", "D", "E", "D", " ", "S", "O", "L", "I", "D", "S">>
        ELSE IF Contains(<<"C", "H", "L", "O", "R", "I", "N", "E">>, name) THEN chlorine
        ELSE IF Contains(<<"C", "O", "P", "P", "E", "R">>, name)
            THEN <<"C", "O", "P", "P", "E", "R", " ", "(", "C", "U", ")">>
        ELSE IF Contains(<<"I", "R", "O", "N">>, name) /\ ~Contains(<<"O", "I", "L">>, name)
            THEN <<"I", "R", "O", "N", " ", "(", "F", "E", ")">>
        ELSE IF Contains(<<"N", "I", "C", "K", "E", "L">>, name)
            THEN <<"N", "I", "C", "K", "E", "L", " ", "(", "N", "I", ")">>
        ELSE IF Contains(<<"Z", "I", "N", "C">>, name)
            THEN <<"Z", "I", "N", "C", " ", "(", "Z", "N", ")">>
        ELSE IF Contains(<<"T", "D", "S">>, name) \/ Contains(<<"D", "I", "S", "S", "O", "L", "V", "E", "D", " ", "S", "O", "L", "I", "D">>, name)
            THEN <<"T", "O", "T", "A", "L", " ", "D", "I", "S", "S", "O", "L", "V", "E", "D", " ", "S", "O", "L", "I", "D", "S", " ", "(", "T", "D", "S", ")">>
        ELSE strip(name)

(* The limit catalog is the parameter_limits table: a sequence of rows     *)
(* [equipment_type, parameter_name, lower_limit, upper_limit].  The lookup *)
(* returns the rows of one equipment type, in table order, as the ordered  *)
(* mapping key -> limits.                                                  *)
get_all_limits_for_equipment(cat, equipment_type) ==
    SelectSeq(cat, LAMBDA r : r.equipment_type = equipment_type)

NoLimits == [low |-> None, high |-> None]

match_limits_unguarded(limits, normalized) ==
    LET exact == {i \in 1..Len(limits) : limits[i].parameter_name = normalized}
        fuzzy == {i \in 1..Len(limits) :
                    \/ Contains(limits[i].parameter_name, normalized)
                    \/ Contains(normalized, limits[i].parameter_name)}
        first(S) == CHOOSE i \in S : \A j \in S : i <= j
        found(i) == [low |-> Some(limits[i].lower_limit), high |-> Some(limits[i].upper_limit)]
    IN  IF limits = <<>> THEN [low |-> None, high |-> None]
        ELSE IF exact # {} THEN found(first(exact))
        ELSE IF fuzzy # {} THEN found(first(fuzzy))
        ELSE [low |-> None, high |-> None]

match_limits_fuzzy_first(limits, normalized) ==
    LET exact == {i \in 1..Len(limits) : limits[i].parameter_name = normalized}
        fuzzy == {i \in 1..Len(limits) :
                    \/ Len(limits[i].parameter_name) > 3
                       /\ Contains(limits[i].parameter_name, normalized)
                    \/ Len(normalized) > 3
                       /\ Contains(normalized, limits[i].parameter_name)}
        first(S) == CHOOSE i \in S : \A j \in S : i <= j
        found(i) == [low |-> Some(limits[i].lower_limit), high |-> Some(limits[i].upper_limit)]
    IN  IF limits = <<>> THEN [low |-> None, high |-> None]
        ELSE IF fuzzy # {} THEN found(first(fuzzy))
        ELSE IF exact # {} THEN found(first(exact))
        ELSE [low |-> None, high |-> None]

(* the exact match, then the first fuzzy match in table order *)
match_limits(limits, normalized) ==
    LET exact == {i \in 1..Len(limits) : limits[i].parameter_name = normalized}
        fuzzy == {i \in 1..Len(limits) :
                    \/ Len(limits[i].parameter_name) > 3
                       /\ Contains(limits[i].parameter_name, normalized)
                    \/ Len(normalized) > 3
                       /\ Contains(normalized, limits[i].parameter_name)}
        first(S) == CHOOSE i \in S : \A j \in S : i <= j
        found(i) == [low |-> Some(limits[i].lower_limit), high |-> Some(limits[i].upper_limit)]
    IN  IF limits = <<>> THEN NoLimits
        ELSE IF exact # {} THEN found(first(exact))
        ELSE IF fuzzy # {} THEN found(first(fuzzy))
        ELSE NoLimits

get_limits_for_pdf_once(cat, equipment_type, parameter_name) ==
    IF nops > 0 THEN [low |-> None, high |-> None]
    ELSE match_limits(get_all_limits_for_equipment(cat, equipment_type),
                      normalize_param_name_for_limits(parameter_name, equipment_type))

get_limits_for_pdf(cat, equipment_type, parameter_name) ==
    match_limits(get_all_limits_for_equipment(cat, equipment_type),
                 normalize_param_name_for_limits(parameter_name, equipment_type))

----------------------------------------------------------------------------
(* Page geometry: ReportPDFGenerator.__init__ *)

height == 792
margin_left == 25
header_bar_bottom == height - 100
top_offset == header_bar_bottom - 40
bottom_margin == 85

(* add_chart / flush_grid / add_wide_chart locals *)
grid_chart_height == 245
v_gap == 15
chart_h == 260
wide_chart_height == 280
subsection_min_y == 180

----------------------------------------------------------------------------
(* The canvas.  c.doc is the sequence of finished pages, c.page the page   *)
(* being drawn; a page is the set of callers that drew on it.  pdf.who is  *)
(* the caller on whose behalf the generator is drawing, and pdf.tr records *)
(* what the method call in progress drew and which page operations it made.*)
(* pdf.row_set holds the bottom edges of the charts of the open row-set;   *)
(* pdf.tr.flushed those of the row-set flush_grid last closed on the page, *)
(* pdf.row_page the number of finished pages when grid_row_y was recorded. *)
(* Each drawing records the grid_position and y_position it was made at.   *)

EmptyTrace == [drawn |-> <<>>, showPage |-> 0, start |-> 0, tables |-> <<>>,
               rows |-> <<>>, alert_cells |-> <<>>, data |-> <<>>, flushed |-> <<>>]

drawOn(p, what, bottom, text) ==
    [p EXCEPT !.c.page = @ \cup {p.who},
              !.tr.drawn = Append(@, [what |-> what, bottom |-> bottom, text |-> text,
                                      grid |-> p.grid_position, y |-> p.y_position,
                                      above |-> p.tr.flushed])]

showPage(p) ==
    [p EXCEPT !.c.doc = Append(@, p.c.page),
              !.c.page = {},
              !.tr.showPage = @ + 1]

NewGenerator ==
    [ current_section |-> NoSection,
      y_position      |-> height - 115,
      grid_position   |-> 0,
      grid_row_y      |-> None,
      section_page    |-> 1,
      c               |-> [doc |-> <<>>, page |-> {}, saved |-> 0],
      who             |-> <<"caller", 0>>,
      row_set         |-> <<>>,
      row_page        |-> 0,
      tr              |-> EmptyTrace ]

----------------------------------------------------------------------------
(* ReportPDFGenerator methods, as functions from the object to the object  *)

start_content_page_keeps_page_number(p, section_name, is_continuation) ==
    LET p1 == IF ~is_continuation
              THEN [p EXCEPT !.current_section = section_name]
              ELSE [p EXCEPT !.section_page = @ + 1]
        display_name == IF is_continuation
                        THEN <<p1.current_section, "Page", p1.section_page>>
                        ELSE <<section_name>>
        p2 == drawOn(p1, "header", height - 55, display_name)
    IN  [p2 EXCEPT !.y_position = header_bar_bottom - 40,
                   !.grid_position = 0,
                   !.row_set = <<>>,
                   !.tr.flushed = <<>>,
                   !.tr.start = @ + 1]

start_content_page_takes_name(p, section_name, is_continuation) ==
    LET p1 == IF ~is_continuation
              THEN [p EXCEPT !.current_section = section_name, !.section_page = 1]
              ELSE [p EXCEPT !.current_section = section_name, !.section_page = @ + 1]
        display_name == IF is_continuation
                        THEN <<p1.current_section, "Page", p1.section_page>>
                        ELSE <<section_name>>
        p2 == drawOn(p1, "header", height - 55, display_name)
    IN  [p2 EXCEPT !.y_position = header_bar_bottom - 40,
                   !.grid_position = 0,
                   !.row_set = <<>>,
                   !.tr.flushed = <<>>,
                   !.tr.start = @ + 1]

start_content_page(p, section_name, is_continuation) ==
    LET p1 == IF ~is_continuation
              THEN [p EXCEPT !.current_section = section_name, !.section_page = 1]
              ELSE [p EXCEPT !.section_page = @ + 1]
        display_name == IF is_continuation
                        THEN <<p1.current_section, "Page", p1.section_page>>
                        ELSE <<section_name>>
        p2 == drawOn(p1, "header", height - 55, display_name)
    IN  [p2 EXCEPT !.y_position = header_bar_bottom - 40,
                   !.grid_position = 0,
                   !.row_set = <<>>,
                   !.tr.flushed = <<>>,
                   !.tr.start = @ + 1]

PageBreak_first_page(p) == start_content_page(showPage(p), p.current_section, FALSE)

PageBreak(p) == start_content_page(showPage(p), p.current_section, TRUE)

add_chart_one_gap(p, chart_bytes) ==
    IF chart_bytes = None THEN p
    ELSE
    LET p1 == IF p.grid_position = 0
              THEN LET q == IF p.y_position - grid_chart_height < bottom_margin
                            THEN PageBreak(p) ELSE p
                   IN  [q EXCEPT !.grid_row_y = Some(q.y_position),
                                 !.row_page = Len(q.c.doc)]
              ELSE p
        y_pos == IF p1.grid_position < 2
                 THEN Val(p1.grid_row_y) - grid_chart_height
                 ELSE Val(p1.grid_row_y) - (grid_chart_height * 2) - v_gap
        p2 == drawOn(p1, "chart", y_pos, <<p1.grid_position>>)
        p3 == [p2 EXCEPT !.grid_position = @ + 1, !.row_set = Append(@, y_pos)]
    IN  IF p3.grid_position >= 4
        THEN [p3 EXCEPT !.grid_position = 0, !.y_position = y_pos, !.row_set = <<>>]
        ELSE p3

add_chart(p, chart_bytes) ==
    IF chart_bytes = None THEN p
    ELSE
    LET p1 == IF p.grid_position = 0
              THEN LET q == IF p.y_position - grid_chart_height < bottom_margin
                            THEN PageBreak(p) ELSE p
                   IN  [q EXCEPT !.grid_row_y = Some(q.y_position),
                                 !.row_page = Len(q.c.doc)]
              ELSE p
        y_pos == IF p1.grid_position < 2
                 THEN Val(p1.grid_row_y) - grid_chart_height
                 ELSE Val(p1.grid_row_y) - (grid_chart_height * 2) - v_gap
        p2 == drawOn(p1, "chart", y_pos, <<p1.grid_position>>)
        p3 == [p2 EXCEPT !.grid_position = @ + 1, !.row_set = Append(@, y_pos)]
    IN  IF p3.grid_position >= 4
        THEN [p3 EXCEPT !.grid_position = 0, !.y_position = y_pos - v_gap, !.row_set = <<>>]
        ELSE p3

flush_grid(p) ==
    IF p.grid_position > 0
    THEN LET rows_used == (p.grid_position + 1) \div 2
         IN  [p EXCEPT !.y_position = Val(p.grid_row_y) - (rows_used * chart_h)
                                        - ((rows_used - 1) * v_gap) - v_gap,
                       !.grid_position = 0,
                       !.row_set = <<>>,
                       !.tr.flushed = p.row_set]
    ELSE p

add_wide_chart_flush_first(p, chart_bytes) ==
    LET p1 == flush_grid(p)
    IN  IF chart_bytes = None THEN p1
        ELSE
        LET p2 == IF p1.y_position - wide_chart_height < bottom_margin
                  THEN PageBreak(p1) ELSE p1
            y_pos == p2.y_position - wide_chart_height
            p3 == drawOn(p2, "wide_chart", y_pos, <<>>)
        IN  [p3 EXCEPT !.y_position = y_pos - v_gap]

add_wide_chart_no_flush(p, chart_bytes) ==
    IF chart_bytes = None THEN p
    ELSE
    LET p2 == IF p.y_position - wide_chart_height < bottom_margin
              THEN PageBreak(p) ELSE p
        y_pos == p2.y_position - wide_chart_height
        p3 == drawOn(p2, "wide_chart", y_pos, <<>>)
    IN  [p3 EXCEPT !.y_position = y_pos - v_gap]

add_wide_chart_no_page_check(p, chart_bytes) ==
    IF chart_bytes = None THEN p
    ELSE
    LET p1 == flush_grid(p)
        y_pos == p1.y_position - wide_chart_height
        p3 == drawOn(p1, "wide_chart", y_pos, <<>>)
    IN  [p3 EXCEPT !.y_position = y_pos - v_gap]

add_wide_chart(p, chart_bytes) ==
    IF chart_bytes = None THEN p
    ELSE
    LET p1 == flush_grid(p)
        p2 == IF p1.y_position - wide_chart_height < bottom_margin
              THEN PageBreak(p1) ELSE p1
        y_pos == p2.y_position - wide_chart_height
        p3 == drawOn(p2, "wide_chart", y_pos, <<>>)
    IN  [p3 EXCEPT !.y_position = y_pos - v_gap]

add_subsection(p, title) ==
    LET p1 == IF p.y_position < subsection_min_y THEN PageBreak(p) ELSE p
        p2 == drawOn(p1, "subsection", p1.y_position, <<title>>)
    IN  [p2 EXCEPT !.y_position = @ - 40 - 22]

add_text(p, text) ==
    LET p1 == IF p.y_position < bottom_margin THEN PageBreak(p) ELSE p
        p2 == drawOn(p1, "text", p1.y_position, <<text>>)
    IN  [p2 EXCEPT !.y_position = @ - 16]

add_table(p, data) ==
    IF data = <<>> THEN p
    ELSE
    LET table_height == (Len(data) + 1) * 22 + 10
        p1 == IF p.y_position - table_height < bottom_margin THEN PageBreak(p) ELSE p
        p2 == drawOn(p1, "plain_table", p1.y_position - table_height, <<Len(data)>>)
    IN  [p2 EXCEPT !.y_position = @ - (table_height + 25)]

end_section(p) == showPage(p)

----------------------------------------------------------------------------
(* Inputs: the limit catalog, and the names the records of the model use  *)

eq_POTABLE == <<"P", "O", "T", "A", "B", "L", "E", " ", "W", "A", "T", "E", "R">>
eq_BOILER == <<"A", "U", "X", " ", "B", "O", "I", "L", "E", "R", " ", "&", " ", "E", "G", "E">>
eq_BALLAST == <<"B", "A", "L", "L", "A", "S", "T", " ", "W", "A", "T", "E", "R">>

Limit(eq, name, lo, hi) ==
    [equipment_type |-> eq, parameter_name |-> name, lower_limit |-> lo, upper_limit |-> hi]

(* -10 is the sentinel -1.0: no limit configured *)
Catalog1 ==
    << Limit(eq_POTABLE, <<"P", "H">>, 65, 85),
       Limit(eq_POTABLE, <<"T", "U", "R", "B", "I", "D", "I", "T", "Y">>, -10, -10),
       Limit(eq_POTABLE, <<"T", "O", "T", "A", "L", " ", "H", "A", "R", "D", "N", "E", "S", "S", " ", "(", "A", "S", " ", "C", "A", "C", "O", "sub3", ")">>, 0, 2000),
       Limit(eq_POTABLE, <<"C", "H", "L", "O", "R", "I", "D", "E">>, 2500, 0),
       Limit(eq_BOILER, <<"P", "H", "O", "S", "P", "H", "A", "T", "E">>, 200, 400),
       Limit(eq_BOILER, <<"P", "H">>, 95, 115) >>

Catalogs == {Catalog1}

pn_pH == <<"p", "H", "-", "U", "n", "i", "v", "e", "r", "s", "a", "l", " ", "(", "l", "i", "q", ")">>
pn_turbidity == <<"T", "u", "r", "b", "i", "d", "i", "t", "y">>
pn_chloride == <<"C", "h", "l", "o", "r", "i", "d", "e", " ", "(", "l", "i", "q", ")">>
pn_viable == <<"V", "i", "a", "b", "l", "e", " ", "C", "o", "u", "n", "t">>
pn_iron == <<"I", "r", "o", "n", " ", "(", "F", "e", ")">>
pn_bn == <<"B", "a", "s", "e", "N", "u", "m", "b", "e", "r">>
pn_viscosity == <<"V", "i", "s", "c", "o", "s", "i", "t", "y">>
ParameterNames == {pn_pH, pn_turbidity, pn_chloride, pn_viable, pn_iron, pn_bn, pn_viscosity}
eq_HOTWELL == <<"H", "O", "T", "W", "E", "L", "L">>
eq_AUX_ENGINE == <<"A", "U", "X", " ", "E", "N", "G", "I", "N", "E">>
eq_SEWAGE == <<"S", "E", "W", "A", "G", "E">>
eq_COOLING == <<"H", "T", " ", "&", " ", "L", "T", " ", "C", "O", "O", "L", "I", "N", "G", " ", "W", "A", "T", "E", "R">>
eq_EGCS == <<"E", "G", "C", "S">>
EquipmentTypes == {eq_POTABLE, eq_BOILER, eq_BALLAST, eq_HOTWELL, eq_AUX_ENGINE, eq_SEWAGE,
                   eq_COOLING, eq_EGCS}

(* get_limits_for_pdf on the names and equipment types of the model's      *)
(* records, evaluated once                                                 *)
limits_for_pdf ==
    [cat \in Catalogs, eq \in EquipmentTypes, name \in ParameterNames |->
        get_limits_for_pdf(cat, eq, name)]

(* scavenge drain sampling points: "SD0 Fresh Oil", "ME Unit 1", ...       *)
sampling_point(u) ==
    IF u = 0 THEN <<"S", "D", "0", " ", "F", "r", "e", "s", "h", " ", "O", "i", "l">> 
    ELSE <<"M", "E", " ", "U", "n", "i", "t", " ">> \o <<Digits[u + 1]>>
SamplingPoints == {sampling_point(u) : u \in 0..5}

----------------------------------------------------------------------------
(* Tables.  A measurement record (item) is                                 *)
(*   [measurement_date |-> [day, time], unit_id, sampling_point_name,      *)
(*    parameter_name, value_numeric |-> [t, v], unit]                      *)
(* where value_numeric.t is "None", "num" (v in tenths) or "str" (a text   *)
(* that float() rejects), and day = 0 is the empty date string.            *)

max_rows_per_page == 24
data_row_height == 18
scavenge_row_height == 20

KeyGreater(a, b) == a.day > b.day \/ (a.day = b.day /\ a.time > b.time)

(* sorted(data, key=measurement_date, reverse=True): stable, descending *)
sorted_by_date_desc(data) ==
    LET n == Len(data)
        key == List([i \in 1..n |-> data[i].measurement_date], n)
        pos == List([i \in 1..n |->
                       1 + Cardinality({j \in 1..n : KeyGreater(key[j], key[i])})
                         + Cardinality({j \in 1..(i - 1) : key[j] = key[i]})], n)
    IN  List([k \in 1..n |-> data[CHOOSE i \in 1..n : pos[i] = k]], n)

(* one pass of the loop over the sorted records: lines 402-437 *)
(* lim is what get_limits_for_pdf returned for the record *)
checked_row_flags_unresolved(lim, item, row_idx) ==
    LET value == item.value_numeric
        low == lim.low
        high == lim.high
        limits_str == IF low # None /\ high # None THEN <<Val(low), "-", Val(high)>> ELSE <<"-">>
        is_alert == /\ value.t = "num"
                    /\ (low = None \/ high = None
                        \/ value.v < Val(low) \/ value.v > Val(high))
        status == IF is_alert THEN "ALERT" ELSE "OK"
        short_param == Prefix(item.parameter_name, 20)
        value_str == [text |-> IF value.t = "num" THEN <<value.v>> ELSE <<"str">>, star |-> is_alert]
    IN  [ row   |-> [date |-> item.measurement_date.day, unit |-> item.unit_id,
                     param |-> short_param, value |-> value_str, meas_unit |-> item.unit,
                     limits |-> limits_str, status |-> status, item |-> item],
          cells |-> IF is_alert THEN <<(<<row_idx, 3>>), (<<row_idx, 6>>)>> ELSE <<>> ]

checked_row_exclusive_bounds(lim, item, row_idx) ==
    LET value == item.value_numeric
        low == lim.low
        high == lim.high
        limits_str == IF low # None /\ high # None THEN <<Val(low), "-", Val(high)>> ELSE <<"-">>
        is_alert == /\ low # None /\ high # None
                    /\ value.t = "num"
                    /\ (value.v <= Val(low) \/ value.v >= Val(high))
        status == IF is_alert THEN "ALERT" ELSE "OK"
        short_param == Prefix(item.parameter_name, 20)
        value_str == [text |-> IF value.t = "num" THEN <<value.v>> ELSE <<"str">>, star |-> is_alert]
    IN  [ row   |-> [date |-> item.measurement_date.day, unit |-> item.unit_id,
                     param |-> short_param, value |-> value_str, meas_unit |-> item.unit,
                     limits |-> limits_str, status |-> status, item |-> item],
          cells |-> IF is_alert THEN <<(<<row_idx, 3>>), (<<row_idx, 6>>)>> ELSE <<>> ]

checked_row(lim, item, row_idx) ==
    LET value == item.value_numeric
        low == lim.low
        high == lim.high
        limits_str == IF low # None /\ high # None THEN <<Val(low), "-", Val(high)>> ELSE <<"-">>
        is_alert == /\ low # None /\ high # None
                    /\ value.t = "num"
                    /\ (value.v < Val(low) \/ value.v > Val(high))
        status == IF is_alert THEN "ALERT" ELSE "OK"
        short_param == Prefix(item.parameter_name, 20)
        value_str == [text |-> IF value.t = "num" THEN <<value.v>> ELSE <<"str">>, star |-> is_alert]
    IN  [ row   |-> [date |-> item.measurement_date.day, unit |-> item.unit_id,
                     param |-> short_param, value |-> value_str, meas_unit |-> item.unit,
                     limits |-> limits_str, status |-> status, item |-> item],
          cells |-> IF is_alert THEN <<(<<row_idx, 3>>), (<<row_idx, 6>>)>> ELSE <<>> ]

data_table_row(cat, equipment_type, item, row_idx) ==
    checked_row(limits_for_pdf[cat, equipment_type, item.parameter_name], item, row_idx)

(* rows and alert_cells after the loop, checked[k] being the row of the    *)
(* k-th record that has a value                                            *)
rows_and_cells(checked, alerts) ==
    [ rows |-> List([k \in 1..Len(checked) |-> checked[k].row], Len(checked)),
      alert_cells |-> List([j \in 1..(2 * Len(alerts)) |->
                              checked[alerts[(j + 1) \div 2]].cells[2 - (j % 2)]],
                           2 * Len(alerts)) ]

checked_rows(checked) ==
    rows_and_cells(checked, SelectSeq(List([k \in 1..Len(checked) |-> k], Len(checked)),
                                      LAMBDA k : checked[k].cells # <<>>))

(* the loop of lines 402-437 over the sorted records; a record without a   *)
(* value is passed over and does not advance row_idx                       *)
kept_rows(cat, equipment_type, kept) ==
    checked_rows(List([k \in 1..Len(kept) |-> data_table_row(cat, equipment_type, kept[k], k)],
                      Len(kept)))

data_table_rows_counting_nulls(cat, equipment_type, items) ==
    LET pos == SelectSeq(List([i \in 1..Len(items) |-> i], Len(items)),
                         LAMBDA i : items[i].value_numeric.t # "None")
    IN  checked_rows(List([k \in 1..Len(pos) |->
                             data_table_row(cat, equipment_type, items[pos[k]], pos[k])],
                          Len(pos)))

data_table_rows(cat, equipment_type, items) ==
    kept_rows(cat, equipment_type, SelectSeq(items, LAMBDA item : item.value_numeric.t # "None"))

(* the full row list and the alert cells a table method has built, kept  *)
(* in the trace of the call                                               *)
Built(p, rows, alert_cells) == [p EXCEPT !.tr.rows = rows, !.tr.alert_cells = alert_cells]

drawTable_short(p, bottom, page_rows, highlight, start_idx) ==
    LET q == drawOn(p, "table", bottom, <<Len(page_rows)>>)
    IN  [q EXCEPT !.tr.tables = Append(@, [rows |-> SubSeq(page_rows, 1, Len(page_rows) - 1),
                                          highlight |-> highlight, start_idx |-> start_idx])]

drawTable(p, bottom, page_rows, highlight, start_idx) ==
    LET q == drawOn(p, "table", bottom, <<Len(page_rows)>>)
    IN  [q EXCEPT !.tr.tables = Append(@, [rows |-> page_rows, highlight |-> highlight,
                                          start_idx |-> start_idx])]

unadjusted_row(orig_row, start_idx) == orig_row

(* adjusted_row = orig_row - start_idx *)
adjusted_row(orig_row, start_idx) == orig_row - start_idx

(* the paging loop of add_data_table_with_limits: lines 446-502 *)
RECURSIVE data_table_pages(_, _, _, _, _)
data_table_pages(p, rows, alert_cells, title, page_num) ==
    IF page_num * max_rows_per_page < Len(rows)
    THEN LET start_idx == page_num * max_rows_per_page
             end_idx == Min(start_idx + max_rows_per_page, Len(rows))
             page_rows == SubSeq(rows, start_idx + 1, end_idx)
             p1 == IF page_num > 0
                   THEN LET q == PageBreak(p)
                        IN  IF title # None
                            THEN add_subsection(q, <<Val(title), "(continued)">>)
                            ELSE q
                   ELSE p
             highlight == { <<alert_cells[k][2], adjusted_row(alert_cells[k][1], start_idx)>> :
                              k \in { j \in 1..Len(alert_cells) :
                                        /\ 1 <= adjusted_row(alert_cells[j][1], start_idx)
                                        /\ adjusted_row(alert_cells[j][1], start_idx) <= Len(page_rows) } }
             table_height == (Len(page_rows) + 1) * data_row_height + 10
             p2 == drawTable(p1, p1.y_position - table_height, page_rows, highlight, start_idx)
             p3 == [p2 EXCEPT !.y_position = @ - (table_height + 15)]
         IN  data_table_pages(p3, rows, alert_cells, title, page_num + 1)
    ELSE p

(* the legend at the end: lines 505-510 *)
data_table_legend(p, alert_cells) ==
    IF alert_cells # <<>>
    THEN [drawOn(p, "legend", p.y_position, <<"*">>) EXCEPT !.y_position = @ - 15]
    ELSE p

(* lines 439-510, built being the rows and alert cells of lines 397-437 *)
draw_data_table(p, built, title) ==
    IF built.rows = <<>> THEN p
    ELSE data_table_legend(data_table_pages(Built(p, built.rows, built.alert_cells),
                                            built.rows, built.alert_cells, title, 0),
                           built.alert_cells)

data_table_heading_no_flush(p, title, new_page) ==
    LET p2 == IF new_page THEN PageBreak(p) ELSE p
    IN  IF title # None THEN add_subsection(p2, <<Val(title)>>) ELSE p2

(* lines 386-393 *)
data_table_heading(p, title, new_page) ==
    LET p1 == flush_grid(p)
        p2 == IF new_page THEN PageBreak(p1) ELSE p1
    IN  IF title # None THEN add_subsection(p2, <<Val(title)>>) ELSE p2

add_data_table_with_limits(p, cat, data, equipment_type, title, new_page) ==
    IF data = <<>> THEN p
    ELSE draw_data_table(data_table_heading([p EXCEPT !.tr.data = data], title, new_page),
                         data_table_rows(cat, equipment_type, sorted_by_date_desc(data)),
                         title)

(* add_scavenge_drain_table: sampling point -> unit label, lines 546-553 *)
IsDigit(ch) == IndexIn(Digits, ch) > 0

(* re.search(r"unit\s*(\d+)", sp_name, re.IGNORECASE): the digits of the   *)
(* leftmost match, or None                                                 *)
unit_match(sp_name) ==
    LET n == Len(sp_name)
        low == lower(sp_name)
        after_ws(i) == CHOOSE j \in i..(n + 1) :
                          /\ (j = n + 1 \/ sp_name[j] # " ")
                          /\ \A m \in i..(j - 1) : sp_name[m] = " "
        starts == {i \in 1..(n - 3) :
                     /\ SubSeq(low, i, i + 3) = <<"u", "n", "i", "t">>
                     /\ after_ws(i + 4) <= n
                     /\ IsDigit(sp_name[after_ws(i + 4)])}
    IN  IF starts = {} THEN None
        ELSE LET i == CHOOSE x \in starts : \A y \in starts : x <= y
                 j == after_ws(i + 4)
                 k == CHOOSE x \in j..n :
                         /\ \A m \in j..x : IsDigit(sp_name[m])
                         /\ (x = n \/ ~IsDigit(sp_name[x + 1]))
             IN  Some(SubSeq(sp_name, j, k))

sd_unit(sp_name) ==
    IF Contains(<<"f", "r", "e", "s", "h">>, lower(sp_name)) \/ Contains(<<"s", "d", "0">>, lower(sp_name))
    THEN <<"F", "r", "e", "s", "h", " ", "C", "y", "l", " ", "O", "i", "l">>
    ELSE IF unit_match(sp_name) # None
         THEN <<"C", "y", "l", " ">> \o Val(unit_match(sp_name))
         ELSE Prefix(sp_name, 10)

sd_is_iron(item) ==
    LET param_name == lower(item.parameter_name)
    IN  Contains(<<"i", "r", "o", "n">>, param_name) \/ Contains(<<"f", "e">>, param_name)

sd_is_bn(item) ==
    LET param_name == lower(item.parameter_name)
    IN  ~sd_is_iron(item) /\ (Contains(<<"b", "a", "s", "e">>, param_name) \/ Contains(<<"b", "n">>, param_name))

(* sd_unit and the parameter test on the names of the model's records,     *)
(* evaluated once                                                          *)
sd_units == [sp \in SamplingPoints |-> sd_unit(sp)]
sd_params == [name \in ParameterNames |->
                IF sd_is_iron([parameter_name |-> name]) THEN "iron"
                ELSE IF sd_is_bn([parameter_name |-> name]) THEN "bn" ELSE "other"]

(* sorted(organized.keys(), reverse=True), then sorted(organized[date]):   *)
(* the (date, unit) pairs, dates descending and units ascending            *)
sd_before(k1, k2) == k1[1] > k2[1] \/ (k1[1] = k2[1] /\ StrLess(k1[2], k2[2]))

(* keys: the (date, unit) pair of every record; valid: the records kept.   *)
(* The distinct pairs of the kept records in row order.                    *)
sd_sorted_keys(key, valid) ==
    LET n == Len(key)
        firsts == SelectSeq(List([i \in 1..n |-> i], n),
                            LAMBDA i : i \in valid /\ \A j \in 1..(i - 1) : ~(j \in valid /\ key[j] = key[i]))
        m == Len(firsts)
        rank == List([r \in 1..m |->
                        1 + Cardinality({q \in 1..m : sd_before(key[firsts[q]], key[firsts[r]])})], m)
    IN  List([r \in 1..m |-> key[firsts[CHOOSE q \in 1..m : rank[q] = r]]], m)

(* lines 536-620: organise by (date, unit), then one row per pair.         *)
(* sd_limits holds the two limit pairs read from parameter_limits, each    *)
(* None or <<(lower, upper)>>.                                             *)
(* lines 597-620: one row per (date, unit) pair in keys *)
organized_rows(sd_limits, data, valid, key, param, keys) ==
    LET lastOf(S) == CHOOSE i \in S : \A j \in S : i >= j
        stored(k, what) ==
            LET S == {i \in valid : key[i] = k /\ param[i] = what}
            IN  IF S = {} THEN None ELSE Some(data[lastOf(S)].value_numeric.v)
        outside(val, limits) ==
            /\ val # None /\ limits # None
            /\ (Val(val) < Val(limits)[1] \/ Val(val) > Val(limits)[2])
        row(k) ==
            LET iron_val == stored(k, "iron")
                bn_val == stored(k, "bn")
                has_alert == outside(iron_val, sd_limits.iron) \/ outside(bn_val, sd_limits.bn)
            IN  [date |-> k[1], unit |-> k[2],
                 iron |-> IF iron_val # None THEN iron_val ELSE <<"-">>,
                 bn |-> IF bn_val # None THEN bn_val ELSE <<"-">>,
                 alert |-> IF has_alert THEN "Yes" ELSE "No"]
    IN  List([r \in 1..Len(keys) |-> row(keys[r])], Len(keys))

(* lines 536-562: the records kept, their (date, unit) pair and parameter *)
organize(sd_limits, data, valid, key) ==
    organized_rows(sd_limits, data, valid, key,
                   List([i \in 1..Len(data) |-> sd_params[data[i].parameter_name]], Len(data)),
                   sd_sorted_keys(key, valid))

alert_rows_of(rows) ==
    [ rows |-> rows,
      alert_rows |-> SelectSeq(List([r \in 1..Len(rows) |-> r], Len(rows)),
                               LAMBDA r : rows[r].alert = "Yes") ]

scavenge_rows(sd_limits, data) ==
    alert_rows_of(organize(
        sd_limits, data,
        {i \in 1..Len(data) :
            data[i].value_numeric.t # "None" /\ data[i].measurement_date.day # 0},
        List([i \in 1..Len(data) |->
                <<data[i].measurement_date.day, sd_units[data[i].sampling_point_name]>>],
             Len(data))))

(* the paging loop of add_scavenge_drain_table: lines 631-685 *)
RECURSIVE scavenge_table_pages(_, _, _, _, _)
scavenge_table_pages(p, rows, alert_rows, title, page_num) ==
    IF page_num * max_rows_per_page < Len(rows)
    THEN LET start_idx == page_num * max_rows_per_page
             end_idx == Min(start_idx + max_rows_per_page, Len(rows))
             page_rows == SubSeq(rows, start_idx + 1, end_idx)
             p1 == IF page_num > 0
                   THEN LET q == PageBreak(p)
                        IN  IF title # None
                            THEN add_subsection(q, <<Val(title), "(continued)">>)
                            ELSE q
                   ELSE p
             highlight == { <<4, adjusted_row(alert_rows[k], start_idx)>> :
                              k \in { j \in 1..Len(alert_rows) :
                                        /\ 1 <= adjusted_row(alert_rows[j], start_idx)
                                        /\ adjusted_row(alert_rows[j], start_idx) <= Len(page_rows) } }
             table_height == (Len(page_rows) + 1) * scavenge_row_height + 10
             p2 == drawTable(p1, p1.y_position - table_height, page_rows, highlight, start_idx)
             p3 == [p2 EXCEPT !.y_position = @ - (table_height + 15)]
         IN  scavenge_table_pages(p3, rows, alert_rows, title, page_num + 1)
    ELSE p

(* lines 622-685, built being the rows and alert rows of lines 566-620 *)
draw_scavenge_table(p, built, title) ==
    IF built.rows = <<>> THEN p
    ELSE scavenge_table_pages(Built(p, built.rows,
                                    List([k \in 1..Len(built.alert_rows) |->
                                            <<built.alert_rows[k], 4>>], Len(built.alert_rows))),
                              built.rows, built.alert_rows, title, 0)

add_scavenge_drain_table(p, sd_limits, data, title) ==
    IF data = <<>> THEN p
    ELSE draw_scavenge_table(
             IF title # None THEN add_subsection(flush_grid(p), <<Val(title)>>) ELSE flush_grid(p),
             scavenge_rows(sd_limits, data), title)

(* add_equipment_specs.  details is what get_vessel_details_for_display    *)
(* returned: a sequence of [category, fields], fields a sequence of        *)
(* booleans, one per field: whether the field has a value.                 *)
(* for field_name, field_value in fields.items(): the fields with a value  *)
(* are drawn one line of 15 below the other: lines 733-739                 *)
spec_fields(p, y, valued) ==
    IF valued = <<>> THEN p
    ELSE [p EXCEPT !.c.page = @ \cup {p.who},
                   !.tr.drawn = @ \o List([k \in 1..Len(valued) |->
                                              [what |-> "spec", bottom |-> y - 15 * (k - 1),
                                               text |-> <<valued[k]>>,
                                               grid |-> p.grid_position,
                                               y |-> y - 15 * (k - 1),
                                               above |-> p.tr.flushed]], Len(valued)),
                   !.y_position = y - 15 * Len(valued)]

RECURSIVE spec_categories(_, _, _)
spec_categories(p, specs, n) ==
    IF n > Len(specs) THEN p
    ELSE LET fields == specs[n].fields
         IN  IF fields = <<>> THEN spec_categories(p, specs, n + 1)
             ELSE LET space_for_category == 15 + (Len(fields) * 12)
                      p1 == IF p.y_position - space_for_category < bottom_margin
                            THEN PageBreak(p) ELSE p
                  IN  spec_categories(
                          spec_fields(p1, p1.y_position,
                                      SelectSeq(List([i \in 1..Len(fields) |-> i], Len(fields)),
                                                LAMBDA i : fields[i])),
                          specs, n + 1)

RECURSIVE total_fields(_, _)
total_fields(specs, n) ==
    IF n > Len(specs) THEN 0 ELSE Len(specs[n].fields) + total_fields(specs, n + 1)

add_equipment_specs(p, details) ==
    LET p1 == flush_grid(p)
        specs == SelectSeq(details, LAMBDA s : s.category # "vessel_info")
    IN  IF details = <<>> \/ specs = <<>> THEN p1
        ELSE
        LET total_items == total_fields(specs, 1)
            space_needed == 30 + (total_items * 14) + (Len(specs) * 20)
            p2 == IF p1.y_position - space_needed < bottom_margin THEN PageBreak(p1) ELSE p1
            p3 == [p2 EXCEPT !.y_position = @ - 15]
            p4 == [drawOn(p3, "specs_header", p3.y_position, <<>>) EXCEPT !.y_position = @ - 5]
            p5 == [drawOn(p4, "specs_rule", p4.y_position, <<>>) EXCEPT !.y_position = @ - 15]
            p6 == spec_categories(p5, specs, 1)
        IN  [p6 EXCEPT !.y_position = @ - 10]

----------------------------------------------------------------------------
(* Inputs: measurement records, specification details                     *)

Num(v) == [t |-> "num", v |-> v]
NoValue == [t |-> "None", v |-> 0]
Text == [t |-> "str", v |-> 0]

Kind(name, value) == [parameter_name |-> name, value_numeric |-> value]
k_ok == Kind(pn_pH, Num(70))
k_alert == Kind(pn_pH, Num(90))
k_low == Kind(pn_pH, Num(65))
k_high == Kind(pn_pH, Num(85))
k_null == Kind(pn_pH, NoValue)
k_text == Kind(pn_pH, Text)
k_sentinel == Kind(pn_turbidity, Num(50))
k_inverted == Kind(pn_chloride, Num(1000))
k_unresolved == Kind(pn_viable, Num(30))

(* record number i of a list: its date is not in list order, so the sort   *)
(* has work to do, and unit_id tells the records apart                     *)
Item(i, kind) ==
    [ measurement_date    |-> [day |-> 1 + (i % 3), time |-> i % 2],
      unit_id             |-> i,
      sampling_point_name |-> <<>>,
      parameter_name      |-> kind.parameter_name,
      value_numeric       |-> kind.value_numeric,
      unit                |-> "mg/l" ]

Cycle(pattern, n) == List([i \in 1..n |-> Item(i, pattern[((i - 1) % Len(pattern)) + 1])], n)

Patterns == { <<k_ok>>, <<k_alert>>, <<k_null>>, <<k_ok, k_alert>>, <<k_alert, k_null, k_ok>>,
              <<k_sentinel, k_ok>>, <<k_unresolved, k_text>>, <<k_low, k_high, k_inverted>> }

SectionNames == {"A", "B"}
Chart == Some("img")
Title == Some("Data")
PlainTables == {<<>>, <<"r">>, <<"r", "r", "r">>}

sk_iron == Kind(pn_iron, Num(300))
sk_bn == Kind(pn_bn, Num(120))
sk_null == Kind(pn_iron, NoValue)
sk_other == Kind(pn_viscosity, Num(10))

ScavItem(i, kind, per_row) ==
    LET q == (i - 1) \div per_row
    IN  [ measurement_date    |-> [day |-> 1 + (q \div 6), time |-> 0],
          unit_id             |-> i,
          sampling_point_name |-> sampling_point(q % 6),
          parameter_name      |-> kind.parameter_name,
          value_numeric       |-> kind.value_numeric,
          unit                |-> "ppm" ]

ScavCycle(pattern, n, per_row) ==
    List([i \in 1..n |-> ScavItem(i, pattern[((i - 1) % Len(pattern)) + 1], per_row)], n)

ScavPatterns == { <<sk_iron>>, <<sk_iron, sk_bn>>, <<sk_null>>, <<sk_bn, sk_null, sk_other>> }
NoSdLimits == [iron |-> None, bn |-> None]
SdLimits == { NoSdLimits, [iron |-> Some(<<0, 200>>), bn |-> None],
              [iron |-> None, bn |-> Some(<<100, 400>>)] }

Details == { <<>>,
             << [category |-> "vessel_info", fields |-> <<TRUE>>] >>,
             << [category |-> "boiler", fields |-> <<TRUE, FALSE, TRUE>>] >>,
             << [category |-> "engine", fields |-> List([i \in 1..12 |-> TRUE], 12)],
                [category |-> "pumps", fields |-> <<>>],
                [category |-> "tanks", fields |-> List([i \in 1..30 |-> TRUE], 30)] >> }

----------------------------------------------------------------------------
(* Cover, back cover, save                                                 *)

draw_cover_page(p) ==
    showPage(drawOn(p, "cover", 0, <<"Onboard Test Report">>))

(* back_image: whether the file BACK_IMAGE exists *)
draw_back_cover(p, back_image) ==
    showPage(IF back_image THEN drawOn(p, "back_cover", 0, <<>>) ELSE p)

(* canvas.save() emits the page in progress if anything was drawn on it *)
save(p) ==
    LET q == IF p.c.page # {} THEN showPage(p) ELSE p
    IN  [q EXCEPT !.c.saved = @ + 1]

----------------------------------------------------------------------------
(* Chart creators of report_utils.py: whether they return an image, None,  *)
(* or raise.  A record yields a point if it has a value and a date.        *)

has_point(record) == record.value_numeric.t # "None" /\ record.measurement_date.day # 0
matches(pattern, record) == Contains(lower(pattern), lower(record.parameter_name))
Where(data, test(_)) == SelectSeq(data, test)

create_line_chart_by_unit(data) ==
    IF data = <<>> THEN None
    ELSE IF \A i \in 1..Len(data) : ~has_point(data[i]) THEN None
    ELSE Chart

create_multi_line_chart(data, parameter_names) ==
    IF data = <<>> THEN None
    ELSE IF \A i \in 1..Len(data) :
               ~(has_point(data[i]) /\ \E k \in 1..Len(parameter_names) : matches(parameter_names[k], data[i]))
         THEN None
         ELSE Chart

(* float(value) of a text value is not guarded here: the exception leaves  *)
(* the function                                                            *)
create_scatter_chart(data, x_param, y_param) ==
    IF data = <<>> THEN [raised |-> FALSE, chart |-> None]
    ELSE LET used == {i \in 1..Len(data) : has_point(data[i])}
             xs == {i \in used : matches(x_param, data[i])}
             ys == {i \in used \ xs : matches(y_param, data[i])}
             has_data == \E i \in xs, j \in ys :
                             /\ data[i].sampling_point_name = data[j].sampling_point_name
                             /\ data[i].measurement_date.day = data[j].measurement_date.day
         IN  IF \E i \in xs \cup ys : data[i].value_numeric.t = "str"
             THEN [raised |-> TRUE, chart |-> None]
             ELSE [raised |-> FALSE, chart |-> IF has_data THEN Chart ELSE None]

create_legend_only_chart(raw_unit_names) == IF raw_unit_names = {} THEN None ELSE Chart

----------------------------------------------------------------------------
(* Section generators.  A generator in progress is [p, n, raised]: the     *)
(* generator object, the number of its method calls completed, whether an  *)
(* exception has left the function.  fault is None, or <<k>>: a fetch, a    *)
(* chart creator or a method raises once k calls have completed.  What the *)
(* data fetches returned is an argument of the generator.                  *)

Running(p) == [p |-> p, n |-> 0, raised |-> FALSE]
Raise(s) == [s EXCEPT !.raised = TRUE]
Try(s, fault) == IF ~s.raised /\ fault = Some(s.n) THEN Raise(s) ELSE s
Do(s, fault, method(_)) ==
    LET t == Try(s, fault)
    IN  IF t.raised THEN t ELSE [t EXCEPT !.p = method(t.p), !.n = @ + 1]
(* if cond: pdf.method(...) *)
DoIf(cond, s, fault, method(_)) == IF cond THEN Do(s, fault, method) ELSE s
(* a statement that raises if cond *)
RaiseIf(cond, s) == IF cond THEN Raise(s) ELSE s

with_unit_id(data, unit_id) ==
    List([i \in 1..Len(data) |-> [data[i] EXCEPT !.unit_id = unit_id]], Len(data))

(* sorted(names) for a set of strings *)
RECURSIVE sorted_names(_)
sorted_names(names) ==
    IF names = {} THEN <<>>
    ELSE LET first == CHOOSE a \in names : \A b \in names \ {a} : StrLess(a, b)
         IN  <<first>> \o sorted_names(names \ {first})

(* the parameter names of data that contain one of params *)
params_found(data, params) ==
    {data[i].parameter_name : i \in {j \in 1..Len(data) :
                                       \E k \in 1..Len(params) : matches(params[k], data[j])}}

(* for param_name in sorted(params_found): one line chart each *)
RECURSIVE param_charts(_, _, _, _, _)
param_charts(s, fault, data, names, i) ==
    IF i > Len(names) THEN s
    ELSE LET param_data == Where(data, LAMBDA d : matches(names[i], d))
         IN  param_charts(DoIf(param_data # <<>>, s, fault,
                               LAMBDA q : add_chart(q, create_line_chart_by_unit(param_data))),
                          fault, data, names, i + 1)

boiler_params == <<<<"P", "h", "o", "s", "p", "h", "a", "t", "e">>, <<"A", "l", "k", "a", "l", "i", "n", "i", "t", "y", " ", "P">>, <<"A", "l", "k", "a", "l", "i", "n", "i", "t", "y", " ", "M">>, <<"C", "h", "l", "o", "r", "i", "d", "e">>, <<"p", "H">>, <<"C", "o", "n", "d", "u", "c", "t", "i", "v", "i", "t", "y">>>>
hotwell_params == <<<<"C", "h", "l", "o", "r", "i", "d", "e">>, <<"p", "H">>, <<"H", "y", "d", "r", "a", "z", "i", "n", "e">>, <<"C", "o", "n", "d", "u", "c", "t", "i", "v", "i", "t", "y">>>>
boiler_map == << <<"Aux1", "AB1 Aux Boiler 1">>, <<"Aux2", "AB2 Aux Boiler 2">>,
                 <<"EGE", "CB Composite Boiler">> >>
hotwell_map == << <<"Hotwell", "HW Hot Well">> >>

(* the loops over boiler_map / hotwell_map: lines 806-823 *)
RECURSIVE collect(_, _, _)
collect(fetch, map, i) ==
    IF i > Len(map) THEN <<>>
    ELSE with_unit_id(fetch[map[i][2]], map[i][1]) \o collect(fetch, map, i + 1)

(* if boiler_data: a chart per parameter found; with no data there is no   *)
(* parameter                                                               *)
generate_boiler_section(s, cat, fetch, details, fault) ==
    LET boiler_data == collect(fetch, boiler_map, 1)
        hotwell_data == collect(fetch, hotwell_map, 1)
        s1 == Do(s, fault, LAMBDA q : start_content_page(q, "Boiler Water Analysis", FALSE))
        s2 == param_charts(s1, fault, boiler_data,
                           sorted_names(params_found(boiler_data, boiler_params)), 1)
        s3 == param_charts(DoIf(hotwell_data # <<>>, s2, fault,
                                LAMBDA q : add_subsection(q, <<"Hotwell">>)),
                           fault, hotwell_data,
                           sorted_names(params_found(hotwell_data, hotwell_params)), 1)
        s4 == DoIf(boiler_data # <<>>, s3, fault, LAMBDA q : add_data_table_with_limits(
                       q, cat, boiler_data, eq_BOILER, Some("Aux Boiler Data"), TRUE))
        s5 == DoIf(hotwell_data # <<>>, s4, fault, LAMBDA q : add_data_table_with_limits(
                       q, cat, hotwell_data, eq_HOTWELL, Some("Hotwell Data"), FALSE))
        s6 == Do(s5, fault, LAMBDA q : add_equipment_specs(q, details))
    IN  Do(s6, fault, LAMBDA q : end_section(q))

lube_params == <<<<"T", "B", "N">>, <<"W", "a", "t", "e", "r", " ", "C", "o", "n", "t", "e", "n", "t">>, <<"V", "i", "s", "c", "o", "s", "i", "t", "y">>, <<"B", "a", "s", "e", "N", "u", "m", "b", "e", "r">>>>

generate_main_engine_section(s, lube_data, scavenge_data, sd_limits, details, fault) ==
    LET has_scavenge == scavenge_data # <<>>
        iron_data == Where(scavenge_data, LAMBDA d : matches(<<"i", "r", "o", "n">>, d))
        bn_data == Where(scavenge_data, LAMBDA d : matches(<<"b", "a", "s", "e">>, d) \/ matches(<<"b", "n">>, d))
        scatter == create_scatter_chart(scavenge_data, <<"B", "a", "s", "e", "N", "u", "m", "b", "e", "r">>, <<"I", "r", "o", "n">>)
        raw_sd_names == {scavenge_data[i].sampling_point_name : i \in 1..Len(scavenge_data)} \ {<<>>}
        s1 == Do(s, fault, LAMBDA q : start_content_page(q, "Main Engine", FALSE))
        s2 == DoIf(lube_data # <<>>, s1, fault,
                   LAMBDA q : add_chart(q, create_multi_line_chart(lube_data, lube_params)))
        s3 == DoIf(iron_data # <<>> /\ create_line_chart_by_unit(iron_data) # None, s2, fault,
                   LAMBDA q : add_chart(q, create_line_chart_by_unit(iron_data)))
        s4 == DoIf(bn_data # <<>> /\ create_line_chart_by_unit(bn_data) # None, s3, fault,
                   LAMBDA q : add_chart(q, create_line_chart_by_unit(bn_data)))
        s5 == DoIf(has_scavenge, RaiseIf(has_scavenge /\ scatter.raised, s4), fault,
                   LAMBDA q : add_chart(q, scatter.chart))
        s6 == DoIf(create_legend_only_chart(raw_sd_names) # None, s5, fault,
                   LAMBDA q : add_chart(q, create_legend_only_chart(raw_sd_names)))
        s7 == DoIf(has_scavenge, s6, fault, LAMBDA q : add_scavenge_drain_table(
                       q, sd_limits, scavenge_data, Some("Scavenge Drain Measurements")))
        s8 == Do(s7, fault, LAMBDA q : add_equipment_specs(q, details))
    IN  Do(s8, fault, LAMBDA q : end_section(q))

ae_cooling_params == <<<<"N", "i", "t", "r", "i", "t", "e">>, <<"p", "H">>, <<"C", "h", "l", "o", "r", "i", "d", "e">>>>
ae_lube_params == <<<<"T", "B", "N">>, <<"B", "a", "s", "e", "N", "u", "m", "b", "e", "r">>, <<"V", "i", "s", "c", "o", "s", "i", "t", "y">>>>
ae_unit == <<"AE1", "AE2", "AE3">>

(* the loop over engine_num in [1, 2, 3]: lines 979-992; acc is           *)
(* [s, all_data]                                                           *)
RECURSIVE aux_engines(_, _, _, _, _)
aux_engines(acc, fault, cooling, lube, engine_num) ==
    IF engine_num > 3 THEN acc
    ELSE aux_engines(
             [s |-> DoIf(lube[engine_num] # <<>>,
                         DoIf(cooling[engine_num] # <<>>, acc.s, fault, LAMBDA q :
                                  add_chart(q, create_multi_line_chart(cooling[engine_num],
                                                                       ae_cooling_params))),
                         fault, LAMBDA q :
                             add_chart(q, create_multi_line_chart(lube[engine_num], ae_lube_params))),
              all_data |-> acc.all_data \o with_unit_id(lube[engine_num], ae_unit[engine_num])],
             fault, cooling, lube, engine_num + 1)

generate_aux_engine_section(s, cat, cooling, lube, details, fault) ==
    LET s0 == Try(s, fault)
        has_any_data == \E engine_num \in 1..3 : cooling[engine_num] # <<>> \/ lube[engine_num] # <<>>
    IN  IF s0.raised \/ ~has_any_data THEN s0
        ELSE
        LET s1 == Do(s0, fault, LAMBDA q : start_content_page(q, "Aux Engines", FALSE))
            acc == aux_engines([s |-> s1, all_data |-> <<>>], fault, cooling, lube, 1)
            s2 == DoIf(acc.all_data # <<>>, acc.s, fault, LAMBDA q : add_data_table_with_limits(
                           q, cat, acc.all_data, eq_AUX_ENGINE, Some("Aux Engine Data"), TRUE))
            s3 == Do(s2, fault, LAMBDA q : add_equipment_specs(q, details))
        IN  Do(s3, fault, LAMBDA q : end_section(q))

generate_potable_water_section(s, cat, pw1, pw2, details, fault) ==
    LET s0 == Try(s, fault)
        all_data == with_unit_id(pw1, "PW1") \o with_unit_id(pw2, "PW2")
    IN  IF s0.raised \/ all_data = <<>> THEN s0
        ELSE
        LET s1 == Do(s0, fault, LAMBDA q : start_content_page(q, "Potable Water", FALSE))
            s2 == Do(s1, fault, LAMBDA q : add_data_table_with_limits(
                        q, cat, all_data, eq_POTABLE, None, FALSE))
            s3 == Do(s2, fault, LAMBDA q : add_equipment_specs(q, details))
        IN  Do(s3, fault, LAMBDA q : end_section(q))

generate_treated_sewage_section(s, cat, gw_data, details, fault) ==
    LET s0 == Try(s, fault)
    IN  IF s0.raised \/ gw_data = <<>> THEN s0
        ELSE
        LET s1 == Do(s0, fault, LAMBDA q : start_content_page(q, "Treated Sewage", FALSE))
            s2 == Do(s1, fault, LAMBDA q : add_data_table_with_limits(
                        q, cat, with_unit_id(gw_data, "GW"), eq_SEWAGE, None, FALSE))
            s3 == Do(s2, fault, LAMBDA q : add_equipment_specs(q, details))
        IN  Do(s3, fault, LAMBDA q : end_section(q))

cooling_params == <<<<"C", "h", "l", "o", "r", "i", "d", "e">>, <<"N", "i", "t", "r", "i", "t", "e">>, <<"p", "H">>>>

(* for param in cooling_params: lines 1101-1141 *)
RECURSIVE cooling_charts(_, _, _, _, _)
cooling_charts(s, fault, ht_data, lt_data, i) ==
    IF i > Len(cooling_params) THEN s
    ELSE LET param_data == Where(with_unit_id(ht_data, "HT"), LAMBDA d : matches(cooling_params[i], d))
                           \o Where(with_unit_id(lt_data, "LT"), LAMBDA d : matches(cooling_params[i], d))
         IN  cooling_charts(DoIf(param_data # <<>> /\ create_line_chart_by_unit(param_data) # None,
                                 s, fault,
                                 LAMBDA q : add_chart(q, create_line_chart_by_unit(param_data))),
                            fault, ht_data, lt_data, i + 1)

generate_central_cooling_section(s, cat, ht_data, lt_data, details, fault) ==
    LET s0 == Try(s, fault)
    IN  IF s0.raised \/ (ht_data = <<>> /\ lt_data = <<>>) THEN s0
        ELSE
        LET s1 == Do(s0, fault, LAMBDA q : start_content_page(q, "Central Cooling Water", FALSE))
            s2 == cooling_charts(s1, fault, ht_data, lt_data, 1)
            all_cooling_data == with_unit_id(ht_data, "HT") \o with_unit_id(lt_data, "LT")
            s3 == DoIf(all_cooling_data # <<>>, s2, fault, LAMBDA q : add_data_table_with_limits(
                           q, cat, all_cooling_data, eq_COOLING, Some("Cooling Water Data"), TRUE))
            s4 == Do(s3, fault, LAMBDA q : add_equipment_specs(q, details))
        IN  Do(s4, fault, LAMBDA q : end_section(q))

generate_ballast_water_section(s, cat, bw_data, fault) ==
    LET s0 == Try(s, fault)
    IN  IF s0.raised \/ bw_data = <<>> THEN s0
        ELSE
        LET s1 == Do(s0, fault, LAMBDA q : start_content_page(q, "Ballast Water", FALSE))
            s2 == Do(s1, fault, LAMBDA q : add_data_table_with_limits(
                        q, cat, with_unit_id(bw_data, "BW"), eq_BALLAST, Some("Ballast Water Data"), FALSE))
        IN  Do(s2, fault, LAMBDA q : end_section(q))

generate_egcs_section(s, cat, egcs_data, fault) ==
    LET s0 == Try(s, fault)
    IN  IF s0.raised \/ egcs_data = <<>> THEN s0
        ELSE
        LET s1 == Do(s0, fault, LAMBDA q : start_content_page(q, "EGCS", FALSE))
            s2 == Do(s1, fault, LAMBDA q : add_data_table_with_limits(
                        q, cat, with_unit_id(egcs_data, "EGCS"), eq_EGCS, Some("EGCS Data"), FALSE))
        IN  Do(s2, fault, LAMBDA q : end_section(q))

----------------------------------------------------------------------------
(* Spec: use of the generator by a caller, any sequence of method calls    *)
(* inside an open section.                                                 *)

Begin(p) == [p EXCEPT !.tr = EmptyTrace]

Cursor(p) == <<p.y_position, p.grid_position, p.grid_row_y, p.current_section, p.section_page>>

Step(op, empty, p) ==
    /\ nops' = nops + 1
    /\ pdf' = p
    /\ last' = [op |-> op, empty |-> empty, raised |-> FALSE]
    /\ UNCHANGED <<catalog, run>>

Idle == [pc |-> "idle"]

InitGenerator ==
    /\ pdf = NewGenerator
    /\ catalog \in Catalogs
    /\ nops = 0
    /\ last = [op |-> "init", empty |-> FALSE, raised |-> FALSE]

Init ==
    /\ InitGenerator
    /\ section_open = FALSE
    /\ run = Idle

StartContentPage ==
    /\ nops < MaxOps
    /\ ~section_open
    /\ \E name \in SectionNames :
          Step("start_content_page", FALSE, start_content_page(Begin(pdf), name, FALSE))
    /\ section_open' = TRUE

AddChart ==
    /\ nops < MaxOps
    /\ section_open
    /\ \E chart \in {None, Chart} :
          Step("add_chart", chart = None, add_chart(Begin(pdf), chart))
    /\ UNCHANGED section_open

FlushGrid ==
    /\ nops < MaxOps
    /\ section_open
    /\ Step("flush_grid", FALSE, flush_grid(Begin(pdf)))
    /\ UNCHANGED section_open

AddWideChart ==
    /\ nops < MaxOps
    /\ section_open
    /\ \E chart \in {None, Chart} :
          Step("add_wide_chart", chart = None, add_wide_chart(Begin(pdf), chart))
    /\ UNCHANGED section_open

AddSubsection ==
    /\ nops < MaxOps
    /\ section_open
    /\ Step("add_subsection", FALSE, add_subsection(Begin(pdf), <<"Hotwell">>))
    /\ UNCHANGED section_open

AddText ==
    /\ nops < MaxOps
    /\ section_open
    /\ Step("add_text", FALSE, add_text(Begin(pdf), "text"))
    /\ UNCHANGED section_open

AddTable ==
    /\ nops < MaxOps
    /\ section_open
    /\ \E data \in PlainTables :
          Step("add_table", data = <<>>, add_table(Begin(pdf), data))
    /\ UNCHANGED section_open

AddDataTableWithLimits ==
    /\ nops < MaxOps
    /\ section_open
    /\ \E data \in {<<>>, Cycle(<<k_null>>, 2), Cycle(<<k_ok, k_alert>>, 3)},
          title \in {None, Title}, new_page \in BOOLEAN :
          Step("add_data_table_with_limits", data = <<>>,
               add_data_table_with_limits(Begin(pdf), catalog, data, eq_POTABLE, title, new_page))
    /\ UNCHANGED section_open

AddScavengeDrainTable ==
    /\ nops < MaxOps
    /\ section_open
    /\ \E data \in {<<>>, ScavCycle(<<sk_null>>, 2, 1), ScavCycle(<<sk_iron, sk_bn>>, 4, 2)},
          title \in {None, Title}, sd_limits \in {NoSdLimits} :
          Step("add_scavenge_drain_table", data = <<>>,
               add_scavenge_drain_table(Begin(pdf), sd_limits, data, title))
    /\ UNCHANGED section_open

AddEquipmentSpecs ==
    /\ nops < MaxOps
    /\ section_open
    /\ \E details \in Details :
          Step("add_equipment_specs", details = <<>>, add_equipment_specs(Begin(pdf), details))
    /\ UNCHANGED section_open

EndSection ==
    /\ nops < MaxOps
    /\ section_open
    /\ Step("end_section", FALSE, end_section(Begin(pdf)))
    /\ section_open' = FALSE

Next ==
    \/ StartContentPage
    \/ AddChart
    \/ FlushGrid
    \/ AddWideChart
    \/ AddSubsection
    \/ AddText
    \/ AddTable
    \/ AddDataTableWithLimits
    \/ AddScavengeDrainTable
    \/ AddEquipmentSpecs
    \/ EndSection

Spec == Init /\ [][Next]_vars

----------------------------------------------------------------------------
(* SpecTable: the two paginated tables on record lists of every length up  *)
(* to MaxRecords, as the last call on a page that holds nothing yet or one *)
(* chart.                                                                  *)

TablePatterns == { <<k_ok, k_alert>>, <<k_alert, k_null, k_ok>>, <<k_sentinel, k_inverted, k_text>>,
                   <<k_low, k_alert, k_high>>, <<k_alert, k_unresolved, k_ok>> }
TableScavPatterns == { <<sk_iron>>, <<sk_bn, sk_null, sk_other, sk_iron>> }

TableReady ==
    /\ section_open
    /\ nops <= 2
    /\ pdf.current_section = "A"
    /\ last.op \in {"start_content_page", "add_chart"}

PagedDataTable ==
    /\ TableReady
    /\ \E pattern \in TablePatterns, n \in 0..MaxRecords, new_page \in BOOLEAN :
          Step("add_data_table_with_limits", n = 0,
               add_data_table_with_limits(Begin(pdf), catalog, Cycle(pattern, n), eq_POTABLE,
                                          IF new_page THEN Title ELSE None, new_page))
    /\ UNCHANGED section_open

PagedScavengeDrainTable ==
    /\ TableReady
    /\ \E pattern \in TableScavPatterns, n \in 0..MaxRecords, sd_limits \in SdLimits :
          Step("add_scavenge_drain_table", n = 0,
               add_scavenge_drain_table(Begin(pdf), sd_limits, ScavCycle(pattern, n, 1), Title))
    /\ UNCHANGED section_open

NextTable ==
    \/ StartContentPage
    \/ AddChart
    \/ PagedDataTable
    \/ PagedScavengeDrainTable

SpecTable == Init /\ [][NextTable]_vars

----------------------------------------------------------------------------
(* SpecReport: generate_report_bytes.  run holds the call's input          *)
(* selected_sections, the position of the loop over it, the calls made so  *)
(* far (log) and the positions whose generator raised.  A page of the      *)
(* document is the set of callers (cover, section number, back cover) that *)
(* drew on it.                                                             *)

MaxSections == 2     \* length of selected_sections
MaxFault == 3        \* calls a generator completes before it raises

section_generators == {"boiler", "main_engines", "aux_engines", "potable_water",
                       "treated_sewage", "central_cooling", "ballast_water", "egcs"}
SelectableKeys == section_generators \cup {"alerts"}
Selections == UNION {[1..n -> SelectableKeys] : n \in 0..MaxSections}
Faults == {None} \cup {Some(k) : k \in 0..MaxFault}

Measured == Cycle(<<k_alert, k_inverted>>, 2)
Fetched == {<<>>, Measured}
Scavenged == ScavCycle(<<sk_iron, sk_bn>>, 4, 2)
sk_text == Kind(pn_iron, Text)
ReportDetails == { <<>>, << [category |-> "boiler", fields |-> <<TRUE, FALSE, TRUE>>] >> }
BoilerEquipment == {"AB1 Aux Boiler 1", "AB2 Aux Boiler 2", "CB Composite Boiler", "HW Hot Well"}
OnlyFrom(names, with_data) == [name \in names |-> IF name \in with_data THEN Measured ELSE <<>>]

InitReport ==
    /\ InitGenerator
    /\ section_open = FALSE
    /\ run \in {[pc |-> "cover", selected_sections |-> sel, section_index |-> 1,
                 log |-> <<>>, raised |-> {}] : sel \in Selections}

Called(op, empty, raised, p) ==
    /\ pdf' = p
    /\ last' = [op |-> op, empty |-> empty, raised |-> raised]
    /\ UNCHANGED <<catalog, section_open, nops>>

DrawCoverPage ==
    /\ run.pc = "cover"
    /\ Called("draw_cover_page", FALSE, FALSE,
              draw_cover_page([Begin(pdf) EXCEPT !.who = <<"cover", 0>>]))
    /\ run' = [run EXCEPT !.pc = "sections", !.log = Append(@, "draw_cover_page")]

AtSection(section_key) ==
    /\ run.pc = "sections"
    /\ run.section_index <= Len(run.selected_sections)
    /\ run.selected_sections[run.section_index] = section_key

Enter == Running([Begin(pdf) EXCEPT !.who = <<"section", run.section_index>>])

Generated_stop_loop(section_key, empty, s) ==
    /\ Called(section_key, empty, s.raised, s.p)
    /\ run' = [run EXCEPT !.section_index = IF s.raised THEN Len(run.selected_sections) + 1
                                             ELSE @ + 1,
                          !.log = Append(@, section_key),
                          !.raised = IF s.raised THEN @ \cup {run.section_index} ELSE @]

Generated_propagate(section_key, empty, s) ==
    /\ Called(section_key, empty, s.raised, s.p)
    /\ run' = [run EXCEPT !.section_index = @ + 1,
                          !.pc = IF s.raised THEN "done" ELSE @,
                          !.log = Append(@, section_key),
                          !.raised = IF s.raised THEN @ \cup {run.section_index} ELSE @]

Generated_abort(section_key, empty, s) ==
    /\ Called(section_key, empty, s.raised, s.p)
    /\ run' = [run EXCEPT !.section_index = @ + 1,
                          !.pc = IF s.raised THEN "save" ELSE @,
                          !.log = Append(@, section_key),
                          !.raised = IF s.raised THEN @ \cup {run.section_index} ELSE @]

(* one pass of the loop: the generator s.p ran to its end, or raised and   *)
(* the handler continues with the next key                                 *)
Generated(section_key, empty, s) ==
    /\ Called(section_key, empty, s.raised, s.p)
    /\ run' = [run EXCEPT !.section_index = @ + 1,
                          !.log = Append(@, section_key),
                          !.raised = IF s.raised THEN @ \cup {run.section_index} ELSE @]

GenerateBoilerSection ==
    /\ AtSection("boiler")
    /\ \E with_data \in {{}, {"AB1 Aux Boiler 1"}, {"HW Hot Well"}, {"AB2 Aux Boiler 2", "HW Hot Well"}},
          details \in ReportDetails, fault \in Faults :
          Generated("boiler", with_data = {} /\ details = <<>>,
                    generate_boiler_section(Enter, catalog, OnlyFrom(BoilerEquipment, with_data),
                                            details, fault))

GenerateMainEngineSection ==
    /\ AtSection("main_engines")
    /\ \E lube_data \in {<<>>, Cycle(<<Kind(pn_viscosity, Num(10))>>, 1)},
          scavenge_data \in {<<>>, Scavenged, ScavCycle(<<sk_text, sk_bn>>, 2, 2)},
          details \in ReportDetails, fault \in Faults :
          Generated("main_engines", lube_data = <<>> /\ scavenge_data = <<>> /\ details = <<>>,
                    generate_main_engine_section(Enter, lube_data, scavenge_data, NoSdLimits,
                                                 details, fault))

GenerateAuxEngineSection ==
    /\ AtSection("aux_engines")
    /\ \E cooling_engines \in {{}, {1}, {2, 3}}, lube_engines \in {{}, {3}},
          details \in ReportDetails, fault \in Faults :
          Generated("aux_engines", cooling_engines = {} /\ lube_engines = {} /\ details = <<>>,
                    generate_aux_engine_section(Enter, catalog, OnlyFrom(1..3, cooling_engines),
                                                OnlyFrom(1..3, lube_engines), details, fault))

GeneratePotableWaterSection ==
    /\ AtSection("potable_water")
    /\ \E pw1 \in Fetched, pw2 \in Fetched, details \in ReportDetails, fault \in Faults :
          Generated("potable_water", pw1 = <<>> /\ pw2 = <<>> /\ details = <<>>,
                    generate_potable_water_section(Enter, catalog, pw1, pw2, details, fault))

GenerateTreatedSewageSection ==
    /\ AtSection("treated_sewage")
    /\ \E gw_data \in Fetched, details \in ReportDetails, fault \in Faults :
          Generated("treated_sewage", gw_data = <<>> /\ details = <<>>,
                    generate_treated_sewage_section(Enter, catalog, gw_data, details, fault))

GenerateCentralCoolingSection ==
    /\ AtSection("central_cooling")
    /\ \E ht_data \in Fetched, lt_data \in Fetched, details \in ReportDetails, fault \in Faults :
          Generated("central_cooling", ht_data = <<>> /\ lt_data = <<>> /\ details = <<>>,
                    generate_central_cooling_section(Enter, catalog, ht_data, lt_data, details, fault))

GenerateBallastWaterSection ==
    /\ AtSection("ballast_water")
    /\ \E bw_data \in Fetched, fault \in Faults :
          Generated("ballast_water", bw_data = <<>>,
                    generate_ballast_water_section(Enter, catalog, bw_data, fault))

GenerateEgcsSection ==
    /\ AtSection("egcs")
    /\ \E egcs_data \in Fetched, fault \in Faults :
          Generated("egcs", egcs_data = <<>>,
                    generate_egcs_section(Enter, catalog, egcs_data, fault))

(* if section_key in section_generators: otherwise the key is passed over *)
SkipUnknownSection ==
    /\ run.pc = "sections"
    /\ run.section_index <= Len(run.selected_sections)
    /\ run.selected_sections[run.section_index] \notin section_generators
    /\ run' = [run EXCEPT !.section_index = @ + 1]
    /\ UNCHANGED <<pdf, catalog, section_open, nops, last>>

DrawBackCover ==
    /\ run.pc = "sections"
    /\ run.section_index > Len(run.selected_sections)
    /\ \E back_image \in BOOLEAN :
          Called("draw_back_cover", FALSE, FALSE,
                 draw_back_cover([Begin(pdf) EXCEPT !.who = <<"back", 0>>], back_image))
    /\ run' = [run EXCEPT !.pc = "save", !.log = Append(@, "draw_back_cover")]

Save ==
    /\ run.pc = "save"
    /\ Called("save", FALSE, FALSE, save(Begin(pdf)))
    /\ run' = [run EXCEPT !.pc = "done", !.log = Append(@, "save")]

NextReport ==
    \/ DrawCoverPage
    \/ GenerateBoilerSection
    \/ GenerateMainEngineSection
    \/ GenerateAuxEngineSection
    \/ GeneratePotableWaterSection
    \/ GenerateTreatedSewageSection
    \/ GenerateCentralCoolingSection
    \/ GenerateBallastWaterSection
    \/ GenerateEgcsSection
    \/ SkipUnknownSection
    \/ DrawBackCover
    \/ Save

SpecReport == InitReport /\ [][NextReport]_vars

(* the call chain is sequential: the statement that can run next does run *)
SpecReportFair == SpecReport /\ WF_vars(NextReport)

----------------------------------------------------------------------------
(* SpecLimits: get_limits_for_pdf called up to MaxLookups times on one     *)
(* limit catalog.  run.calls is the list of the calls made: the arguments, *)
(* the canonical key normalize_param_name_for_limits gave and the limits   *)
(* returned.  In a catalog the keys of one equipment type are distinct, as *)
(* the keys of the mapping the lookup returns are, and so are the bounds,  *)
(* so that the bounds returned tell the entry selected.                    *)

MaxLookups == 2

ln_phosphate == <<"P", "h", "o", "s", "p", "h", "a", "t", "e", " ", "(", "P", "O", "4", ")">>
ln_hardness == <<"H", "a", "r", "d", "n", "e", "s", "s">>
ln_tbn == <<"T", "B", "N">>
ln_cod == <<"C", "O", "D">>
ln_alkalinity_m == <<"A", "l", "k", "a", "l", "i", "n", "i", "t", "y", " ", "M">>
ln_viable == <<"V", "i", "a", "b", "l", "e", " ", "C", "o", "u", "n", "t", "/", "m", "l", " ", "s", "a", "m", "p", "l", "e">>
LookupNames == {pn_pH, pn_chloride, pn_iron, pn_turbidity,
                ln_phosphate, ln_hardness, ln_tbn, ln_cod, ln_alkalinity_m, ln_viable}
LookupEquipment == {eq_POTABLE, eq_BOILER}

ShortKeys ==
    << Limit(eq_BOILER, <<"P", "H">>, 95, 115),
       Limit(eq_POTABLE, <<"P", "H">>, 65, 85),
       Limit(eq_POTABLE, <<"C", "O", "D">>, 0, 1250),
       Limit(eq_BOILER, <<"T", "B", "N">>, 50, 150) >>
LongKeys ==
    << Limit(eq_POTABLE, <<"P", "H", "O", "S", "P", "H", "A", "T", "E">>, 200, 400),
       Limit(eq_BOILER, <<"P", "H", "O", "S", "P", "H", "A", "T", "E">>, 210, 410),
       Limit(eq_POTABLE, <<"T", "B", "N", " ", "N", "U", "M", "B", "E", "R">>, 10, 20),
       Limit(eq_BOILER, <<"C", "O", "D", "E">>, 1, 2) >>
ExactAfterFuzzy ==
    << Limit(eq_POTABLE, <<"T", "O", "T", "A", "L", " ", "H", "A", "R", "D", "N", "E", "S", "S", " ", "(", "A", "S", " ", "C", "A", "C", "O", "sub3", ")">>, 0, 2000),
       Limit(eq_POTABLE, <<"T", "O", "T", "A", "L", " ", "H", "A", "R", "D", "N", "E", "S", "S">>, 0, 1500),
       Limit(eq_POTABLE, <<"I", "R", "O", "N">>, 0, 3),
       Limit(eq_POTABLE, <<"I", "R", "O", "N", " ", "(", "F", "E", ")">>, 0, 5),
       Limit(eq_BOILER, <<"I", "R", "O", "N", " ", "(", "F", "E", ")", " ", "T", "O", "T", "A", "L">>, 0, 7),
       Limit(eq_BOILER, <<"I", "R", "O", "N", " ", "(", "F", "E", ")">>, 0, 9) >>
FuzzyOnly ==
    << Limit(eq_POTABLE, <<"T", "O", "T", "A", "L", " ", "H", "A", "R", "D", "N", "E", "S", "S", " ", "(", "A", "S", " ", "C", "A", "C", "O", "sub3", ")">>, 0, 2000),
       Limit(eq_POTABLE, <<"V", "I", "A", "B", "L", "E">>, 0, 100),
       Limit(eq_POTABLE, <<"V", "I", "A", "B", "L", "E", " ", "C", "O", "U", "N", "T">>, 0, 90),
       Limit(eq_BOILER, <<"A", "L", "K", "A", "L", "I", "N", "I", "T", "Y">>, 1000, 3000),
       Limit(eq_BOILER, <<"T", "O", "T", "A", "L", " ", "A", "L", "K", "A", "L", "I", "N", "I", "T", "Y", " ", "(", "A", "S", " ", "C", "A", "C", "O", "sub3", ")", " ", "M", "A", "X">>, 0, 5000) >>
LimitCatalogs == {<<>>, Catalog1, ShortKeys, LongKeys, ExactAfterFuzzy, FuzzyOnly}

InitLimits ==
    /\ pdf = NewGenerator
    /\ catalog \in LimitCatalogs
    /\ section_open = FALSE
    /\ nops = 0
    /\ last = [op |-> "init", empty |-> FALSE, raised |-> FALSE]
    /\ run = [pc |-> "lookup", calls |-> <<>>]

GetLimitsForPdf ==
    /\ nops < MaxLookups
    /\ \E equipment_type \in LookupEquipment, parameter_name \in LookupNames :
          /\ run' = [run EXCEPT !.calls = Append(@,
                        [ equipment_type |-> equipment_type,
                          parameter_name |-> parameter_name,
                          normalized     |-> normalize_param_name_for_limits(parameter_name,
                                                                             equipment_type),
                          limits         |-> get_limits_for_pdf(catalog, equipment_type,
                                                                parameter_name),
                          catalog        |-> catalog ])]
          /\ last' = [op |-> "get_limits_for_pdf", empty |-> FALSE, raised |-> FALSE]
    /\ nops' = nops + 1
    /\ UNCHANGED <<pdf, catalog, section_open>>

NextLimits == GetLimitsForPdf

SpecLimits == InitLimits /\ [][NextLimits]_vars

----------------------------------------------------------------------------
(* SpecGrid: the operations that leave a pending grid row alone, from the  *)
(* state in which a section has been started and its first chart placed.   *)

InitGrid ==
    /\ pdf = add_chart(start_content_page(NewGenerator, "A", FALSE), Chart)
    /\ catalog \in Catalogs
    /\ section_open = TRUE
    /\ nops = 0
    /\ last = [op |-> "add_chart", empty |-> FALSE, raised |-> FALSE]
    /\ run = Idle

(* a table that fills most of a page *)
LongTable == List([i \in 1..22 |-> "r"], 22)

AddLongTable ==
    /\ nops < MaxOps
    /\ section_open
    /\ Step("add_table", FALSE, add_table(Begin(pdf), LongTable))
    /\ UNCHANGED section_open

(* a page break made by the caller: showPage, then start_content_page     *)
(* with is_continuation=True and any section_name                          *)
ContinueContentPage ==
    /\ nops < MaxOps
    /\ section_open
    /\ \E name \in SectionNames :
          /\ pdf' = start_content_page(showPage(Begin(pdf)), name, TRUE)
          /\ last' = [op |-> "continue_content_page", empty |-> FALSE, raised |-> FALSE,
                      section_name |-> name]
    /\ nops' = nops + 1
    /\ UNCHANGED <<catalog, run, section_open>>

NextGrid ==
    \/ StartContentPage
    \/ ContinueContentPage
    \/ AddChart
    \/ FlushGrid
    \/ AddSubsection
    \/ AddText
    \/ AddTable
    \/ AddLongTable
    \/ EndSection

SpecGrid == InitGrid /\ [][NextGrid]_vars

----------------------------------------------------------------------------
(* The helpers of report_utils.py called on their own: one call of         *)
(* normalize_param_name_for_limits or of is_valid_limit per step; run.calls *)
(* holds the call made last.                                               *)

nn_ph == <<"P", "H">>
nn_phenol == <<"P", "h", "e", "n", "o", "l">>
nn_total_phenols == <<"T", "o", "t", "a", "l", " ", "P", "h", "e", "n", "o", "l", "s">>
nn_sulphur == <<"S", "u", "l", "p", "h", "u", "r">>
nn_sulphate == <<"S", "u", "l", "p", "h", "a", "t", "e", " ", "(", "S", "O", "4", ")">>
nn_alkalinity_p == <<"A", "l", "k", "a", "l", "i", "n", "i", "t", "y", " ", "P">>
nn_alkalinity_p_liq == <<"A", "l", "k", "a", "l", "i", "n", "i", "t", "y", " ", "P", " ", "(", "l", "i", "q", ")">>
nn_alkalinity_p_ppm == <<"A", "l", "k", "a", "l", "i", "n", "i", "t", "y", " ", "P", " ", "p", "p", "m">>
nn_padded == <<" ", "V", "i", "s", "c", "o", "s", "i", "t", "y", " ">>
nn_iron_in_oil == <<"I", "r", "o", "n", " ", "i", "n", " ", "O", "i", "l">>
NormalizedNames == {<<>>, pn_pH, pn_viable, ln_phosphate, ln_alkalinity_m,
                    nn_ph, nn_phenol, nn_total_phenols, nn_sulphur, nn_sulphate,
                    nn_alkalinity_p, nn_alkalinity_p_liq, nn_alkalinity_p_ppm,
                    nn_padded, nn_iron_in_oil}
hint_ege == <<"E", "G", "E">>
hint_boiler == <<"B", "o", "i", "l", "e", "r">>
Hints == {None, eq_POTABLE, eq_BOILER, hint_ege, hint_boiler}

LimitValues == {None, Some([t |-> "num", v |-> -10]), Some([t |-> "num", v |-> 0]),
                Some([t |-> "num", v |-> 65]), Some([t |-> "num", v |-> 85]),
                Some([t |-> "numstr", v |-> 65]), Some([t |-> "str", v |-> 0]),
                Some([t |-> "obj", v |-> 0]), Some([t |-> "nan", v |-> 0])}

InitUtils ==
    /\ pdf = NewGenerator
    /\ catalog = <<>>
    /\ section_open = FALSE
    /\ nops = 0
    /\ last = [op |-> "init", empty |-> FALSE, raised |-> FALSE]
    /\ run = [pc |-> "utils", calls |-> <<>>]

NormalizeParamName ==
    /\ nops < MaxLookups
    /\ \E param_name \in NormalizedNames, equipment_type \in Hints :
          run' = [run EXCEPT !.calls =
                    << [ fn             |-> "normalize_param_name_for_limits",
                         parameter_name |-> param_name,
                         equipment_type |-> equipment_type,
                         normalized     |-> normalize_param_name_for_limits(param_name,
                                                                            equipment_type) ] >>]
    /\ last' = [op |-> "normalize_param_name_for_limits", empty |-> FALSE, raised |-> FALSE]
    /\ nops' = nops + 1
    /\ UNCHANGED <<pdf, catalog, section_open>>

IsValidLimit ==
    /\ nops < MaxLookups
    /\ \E ideal_low \in LimitValues, ideal_high \in LimitValues :
          run' = [run EXCEPT !.calls =
                    << [ fn         |-> "is_valid_limit",
                         ideal_low  |-> ideal_low,
                         ideal_high |-> ideal_high,
                         result     |-> is_valid_limit(ideal_low, ideal_high) ] >>]
    /\ last' = [op |-> "is_valid_limit", empty |-> FALSE, raised |-> FALSE]
    /\ nops' = nops + 1
    /\ UNCHANGED <<pdf, catalog, section_open>>

NextUtils == NormalizeParamName \/ IsValidLimit

SpecUtils == InitUtils /\ [][NextUtils]_vars

----------------------------------------------------------------------------
(* Properties                                                              *)

PlacementOps == {"add_chart", "add_wide_chart", "add_subsection", "add_text", "add_table",
                 "add_data_table_with_limits", "add_scavenge_drain_table", "add_equipment_specs"}
TableOps == {"add_data_table_with_limits", "add_scavenge_drain_table"}
EmptyInputOps == {"add_chart", "add_wide_chart", "add_table", "add_data_table_with_limits",
                  "add_scavenge_drain_table"}
Drawn == {pdf.tr.drawn[k] : k \in 1..Len(pdf.tr.drawn)}
Pages == 1..Len(pdf.tr.tables)

(* C1: whatever sequence of placement operations is issued inside an open  *)
(* section, no element is drawn with its bottom edge below the bottom      *)
(* margin of 85pt: an element that would reach below it is put on a        *)
(* continuation page first.                                                *)
C1_NothingDrawnBelowBottomMargin ==
    last.op \in PlacementOps => \A e \in Drawn : e.bottom >= bottom_margin

(* C2: in add_data_table_with_limits a measurement whose resolved limit    *)
(* pair is not valid for alerting (is_valid_limit is false: a negative     *)
(* bound such as the -1 sentinel, or lower > upper) is never flagged: its  *)
(* status is OK and no alert cell is recorded for its row.                 *)
C2_InvalidLimitNeverFlagged ==
    last.op = "add_data_table_with_limits" =>
        \A r \in 1..Len(pdf.tr.rows) :
            LET lim == limits_for_pdf[catalog, eq_POTABLE, pdf.tr.rows[r].item.parameter_name]
            IN  ~is_valid_limit(Number(lim.low), Number(lim.high)) =>
                    /\ pdf.tr.rows[r].status = "OK"
                    /\ \A k \in 1..Len(pdf.tr.alert_cells) : pdf.tr.alert_cells[k][1] # r

(* C3: when a section generator raises part-way, the finished document     *)
(* holds no page with drawing operations of that section: neither a page   *)
(* it completed nor the page it left open, onto which the next section or  *)
(* the back cover would draw.                                              *)
C3_FailedSectionLeavesNoPage ==
    run.pc = "done" =>
        \A i \in run.raised, n \in 1..Len(pdf.c.doc) : <<"section", i>> \notin pdf.c.doc[n]

IsGenerator(section_key) == section_key \in section_generators
Invoked == SelectSeq(run.log, IsGenerator)

(* C4: in generate_report_bytes the generators of the selected sections    *)
(* are invoked in the given order whether or not an earlier one raised,    *)
(* the run can always go on until it has finished, and it finishes with    *)
(* every selected section invoked and the document saved.                  *)
C4_FailureNeverAbortsRun ==
    run.pc # "idle" =>
        /\ Invoked = SelectSeq(SubSeq(run.selected_sections, 1, run.section_index - 1), IsGenerator)
        /\ run.pc # "done" => ENABLED NextReport
        /\ run.pc \in {"save", "done"} => run.section_index = Len(run.selected_sections) + 1
        /\ run.pc = "done" => pdf.c.saved = 1

C4_LaterSectionInvokedAfterFailure ==
    /\ run.pc = "done"
    /\ Len(run.selected_sections) = 2
    /\ run.raised = {1}
    /\ Invoked = run.selected_sections
    /\ run.selected_sections[1] # run.selected_sections[2]

Count(log, op) == Cardinality({k \in 1..Len(log) : log[k] = op})

(* C5: every run of generate_report_bytes draws the cover page before any  *)
(* section and the back cover after all sections, exactly once each,       *)
(* whatever sections are selected and whichever of them raise.             *)
C5_CoverFirstBackCoverLast ==
    run.pc # "idle" =>
        /\ run.log # <<>> => run.log[1] = "draw_cover_page"
        /\ Count(run.log, "draw_cover_page") = (IF run.pc = "cover" THEN 0 ELSE 1)
        /\ Count(run.log, "draw_back_cover") = (IF run.pc \in {"save", "done"} THEN 1 ELSE 0)
        /\ \A j, k \in 1..Len(run.log) :
              run.log[j] = "draw_back_cover" /\ IsGenerator(run.log[k]) => k < j
        /\ run.pc = "done" =>
              /\ run.log = <<"draw_cover_page">> \o Invoked \o <<"draw_back_cover", "save">>
              /\ pdf.c.doc[1] = {<<"cover", 0>>}

C5_EverySectionRaised ==
    /\ run.pc = "done"
    /\ Len(run.selected_sections) = 2
    /\ run.raised = {1, 2}
    /\ Count(run.log, "draw_back_cover") = 1

(* C6: a section generator whose every data fetch returns no rows draws    *)
(* nothing and emits no page: it calls neither start_content_page nor      *)
(* showPage.                                                               *)
C6_NoDataNoPage ==
    IsGenerator(last.op) /\ last.empty /\ ~last.raised =>
        /\ pdf.tr.drawn = <<>>
        /\ pdf.tr.start = 0
        /\ pdf.tr.showPage = 0

RECURSIVE Concatenated(_, _)
Concatenated(tables, k) ==
    IF k > Len(tables) THEN <<>> ELSE tables[k].rows \o Concatenated(tables, k + 1)

(* C7: for N >= 1 rendered rows and page size P = max_rows_per_page, both  *)
(* paginated tables emit exactly ceil(N / P) table pages of at most P rows *)
(* each, and the pages' rows in page order are the N rows in their order.  *)
C7_PaginationPreservesRows ==
    last.op \in TableOps /\ Len(pdf.tr.rows) >= 1 =>
        /\ Len(pdf.tr.tables) = (Len(pdf.tr.rows) + max_rows_per_page - 1) \div max_rows_per_page
        /\ \A k \in Pages : Len(pdf.tr.tables[k].rows) <= max_rows_per_page
        /\ Concatenated(pdf.tr.tables, 1) = pdf.tr.rows

C7_ThreePages ==
    /\ last.op = "add_data_table_with_limits"
    /\ Len(pdf.tr.rows) = 2 * max_rows_per_page + 1
    /\ Len(pdf.tr.tables) = 3

(* C8: an alert cell recorded on row r of the full row list is highlighted *)
(* on exactly one page, at the page-local row r - pageStartOffset, which   *)
(* lies in [1, rows on that page]; on every other page the remapped index  *)
(* is out of that range and the cell is not highlighted.                   *)
C8_AlertCellOnExactlyOnePage ==
    last.op \in TableOps =>
        \A c \in 1..Len(pdf.tr.alert_cells) :
            LET r == pdf.tr.alert_cells[c][1]
                col == pdf.tr.alert_cells[c][2]
                local(k) == r - pdf.tr.tables[k].start_idx
                on(k) == <<col, local(k)>> \in pdf.tr.tables[k].highlight
            IN  /\ Cardinality({k \in Pages : on(k)}) = 1
                /\ \A k \in Pages :
                      on(k) <=> (1 <= local(k) /\ local(k) <= Len(pdf.tr.tables[k].rows))
                /\ \A k \in Pages :
                      on(k) => pdf.tr.tables[k].rows[local(k)] = pdf.tr.rows[r]

C8_AlertOnSecondPage ==
    /\ last.op = "add_data_table_with_limits"
    /\ Len(pdf.tr.tables) >= 2
    /\ \E c \in 1..Len(pdf.tr.alert_cells) :
          /\ pdf.tr.alert_cells[c][1] > max_rows_per_page
          /\ <<pdf.tr.alert_cells[c][2], pdf.tr.alert_cells[c][1] - max_rows_per_page>>
                \in pdf.tr.tables[2].highlight

FourthChartPlaced == last.op = "add_chart" /\ ~last.empty /\ pdf.grid_position = 0

(* C9, as stated: after four successful add_chart calls from               *)
(* grid_position = 0, grid_position is 0 again and y_position lies below   *)
(* the row top grid_row_y by two chart-row-heights plus one vertical gap.  *)
C9_WrapAdvancesByTwoRowsAndOneGap ==
    FourthChartPlaced =>
        pdf.y_position = Val(pdf.grid_row_y) - (2 * grid_chart_height + v_gap)

(* C9, amended: after four successful add_chart calls from                 *)
(* grid_position = 0, grid_position is 0 again and y_position lies below   *)
(* the row top grid_row_y by two chart-row-heights plus two vertical gaps  *)
(* (2 x 245 + 2 x 15 = 520).                                               *)
C9_WrapAdvancesByTwoRowsAndTwoGaps ==
    FourthChartPlaced =>
        pdf.y_position = Val(pdf.grid_row_y) - (2 * grid_chart_height + 2 * v_gap)

C9_FourChartsFromPageTop ==
    /\ FourthChartPlaced
    /\ nops = 5
    /\ pdf.grid_row_y = Some(top_offset)
    /\ Len(pdf.c.doc) = 0

(* C10: a placer called with an empty input (add_chart(None),              *)
(* add_wide_chart(None), add_table([]), add_data_table_with_limits([]),    *)
(* add_scavenge_drain_table([])) leaves y_position, grid_position,         *)
(* grid_row_y, current_section and section_page as they were, consumes no  *)
(* page and calls neither showPage nor start_content_page, from any        *)
(* reachable state.                                                        *)
C10_EmptyInputChangesNothing ==
    [][ (last'.empty /\ last'.op \in EmptyInputOps) =>
            /\ Cursor(pdf') = Cursor(pdf)
            /\ pdf'.c = pdf.c
            /\ pdf'.tr.showPage = 0
            /\ pdf'.tr.start = 0
            /\ pdf'.tr.drawn = <<>> ]_vars

C10_EmptyInputOnPartialRow ==
    /\ last.empty
    /\ last.op = "add_wide_chart"
    /\ pdf.grid_position = 3

(* C11: when the row list add_data_table_with_limits builds is empty (no   *)
(* record, or no record with a value) the call is a no-op: it consumes no  *)
(* page, draws no subsection title, and leaves y_position, grid_position   *)
(* and section_page as they were, whatever title and new_page are.         *)
C11_EmptyRowListIsNoOp ==
    [][ (last'.op = "add_data_table_with_limits" /\ pdf'.tr.rows = <<>>) =>
            /\ pdf'.c = pdf.c
            /\ pdf'.tr.drawn = <<>>
            /\ pdf'.tr.showPage = 0
            /\ pdf'.tr.start = 0
            /\ pdf'.y_position = pdf.y_position
            /\ pdf'.grid_position = pdf.grid_position
            /\ pdf'.section_page = pdf.section_page ]_vars

Calls == {run.calls[k] : k \in 1..Len(run.calls)}
LimitMap(c) == get_all_limits_for_equipment(c.catalog, c.equipment_type)
Key(c, i) == LimitMap(c)[i].parameter_name
Entries(c) == 1..Len(LimitMap(c))
(* the entries whose bounds the call returned *)
Selected(c) ==
    {i \in Entries(c) : c.limits = [low  |-> Some(LimitMap(c)[i].lower_limit),
                                    high |-> Some(LimitMap(c)[i].upper_limit)]}
Exact(c) == {i \in Entries(c) : Key(c, i) = c.normalized}
(* containment either way, the shorter of the two strings longer than 3 *)
Fuzzy(c) ==
    {i \in Entries(c) :
        /\ Min(Len(Key(c, i)), Len(c.normalized)) > 3
        /\ Contains(Key(c, i), c.normalized) \/ Contains(c.normalized, Key(c, i))}
NoResult == [low |-> None, high |-> None]

(* C12: get_limits_for_pdf never selects an entry by containment on the    *)
(* strength of a string of length <= 3: an entry whose bounds are returned *)
(* has the normalized name as its key, or both its key and the normalized  *)
(* name are longer than 3; so 'PH' gets limits by an exact key only, and   *)
(* the key 'PH' is never returned for 'PHOSPHATE'.                         *)
C12_ShortStringsMatchExactlyOnly ==
    run.pc = "lookup" =>
        \A c \in Calls :
            c.limits # NoResult =>
                /\ Selected(c) # {}
                /\ \A i \in Selected(c) :
                      \/ Key(c, i) = c.normalized
                      \/ Len(Key(c, i)) > 3 /\ Len(c.normalized) > 3

C12_PhNotReturnedForPhosphate ==
    /\ run.pc = "lookup"
    /\ \E c \in Calls :
          /\ c.normalized = <<"P", "H", "O", "S", "P", "H", "A", "T", "E">>
          /\ \E i \in Entries(c) : Key(c, i) = <<"P", "H">>
          /\ c.limits = NoResult

(* C13: get_limits_for_pdf tries the exact key first: when the normalized  *)
(* name is a key of the equipment type's map the bounds of that entry are  *)
(* returned, even if an earlier entry passes the containment test;         *)
(* containment (the shorter string longer than 3) decides only when there  *)
(* is no exact key; (None, None) is returned exactly when the map is empty *)
(* or neither tier matches.                                                *)
C13_ExactThenFuzzy ==
    run.pc = "lookup" =>
        \A c \in Calls :
            /\ Exact(c) # {} => c.limits # NoResult /\ Selected(c) = Exact(c)
            /\ Exact(c) = {} /\ c.limits # NoResult =>
                  Selected(c) # {} /\ Selected(c) \subseteq Fuzzy(c)
            /\ c.limits = NoResult <=>
                  (LimitMap(c) = <<>> \/ (Exact(c) = {} /\ Fuzzy(c) = {}))

C13_ExactEntryAfterFuzzyEntry ==
    /\ run.pc = "lookup"
    /\ \E c \in Calls :
          \E i \in Exact(c) :
              /\ \E j \in Fuzzy(c) : j < i
              /\ Selected(c) = {i}

C14_CursorOnlyDescendsWithinPage ==
    [][ /\ pdf'.tr.start = 0 => pdf'.y_position <= pdf.y_position
        /\ last'.op = "start_content_page" => pdf'.y_position = top_offset ]_vars

(* C15: grid_position is in {0,1,2,3} in every reachable state; the        *)
(* add_chart call that would take it past 3 sets it to 0 and lowers        *)
(* y_position in the same step.                                            *)
C15_GridSlotWrapsAndAdvances ==
    /\ pdf.grid_position \in 0..3
    /\ [][ /\ pdf'.grid_position \in 0..3
           /\ (pdf.grid_position = 3 /\ last'.op = "add_chart" /\ ~last'.empty) =>
                 pdf'.grid_position = 0 /\ pdf'.y_position < pdf.y_position ]_vars

AlertCells == {pdf.tr.alert_cells[k] : k \in 1..Len(pdf.tr.alert_cells)}
RowsBuilt == 1..Len(pdf.tr.rows)

(* C17: in the data table a record whose value is null or unparsable still *)
(* gets its row, with the value cell showing the placeholder "-", and the  *)
(* record has status OK and no alert cell.                                 *)
C17_MalformedValueRowHasPlaceholder ==
    last.op = "add_data_table_with_limits" =>
        \A i \in 1..Len(pdf.tr.data) :
            pdf.tr.data[i].value_numeric.t # "num" =>
                \E r \in RowsBuilt :
                    /\ pdf.tr.rows[r].item = pdf.tr.data[i]
                    /\ pdf.tr.rows[r].value.text = <<"-">>
                    /\ pdf.tr.rows[r].status = "OK"
                    /\ \A cell \in AlertCells : cell[1] # r

(* C19: with equipment type 'POTABLE WATER', raw parameter                 *)
(* 'pH-Universal (liq)' and a catalog holding PH -> (6.5, 8.5), the        *)
(* normalized name is 'PH', get_limits_for_pdf returns (6.5, 8.5), and     *)
(* add_data_table_with_limits records the alert cells of a row whose value *)
(* is 9.0 and none for a row whose value lies in [6.5, 8.5].               *)
C19_PotableWaterPhScenario ==
    /\ normalize_param_name_for_limits(pn_pH, eq_POTABLE) = <<"P", "H">>
    /\ (\E k \in 1..Len(catalog) : catalog[k] = Limit(eq_POTABLE, <<"P", "H">>, 65, 85)) =>
          get_limits_for_pdf(catalog, eq_POTABLE, pn_pH) = [low |-> Some(65), high |-> Some(85)]
    /\ last.op = "add_data_table_with_limits" =>
          \A r \in RowsBuilt :
              LET item == pdf.tr.rows[r].item
              IN  item.parameter_name = pn_pH /\ item.value_numeric.t = "num" =>
                      /\ item.value_numeric.v = 90 =>
                            /\ {<<r, 3>>, <<r, 6>>} \subseteq AlertCells
                            /\ pdf.tr.rows[r].status = "ALERT"
                      /\ (65 <= item.value_numeric.v /\ item.value_numeric.v <= 85) =>
                            /\ \A cell \in AlertCells : cell[1] # r
                            /\ pdf.tr.rows[r].status = "OK"

C19_NinePointZeroFlagged ==
    /\ last.op = "add_data_table_with_limits"
    /\ \E r, q \in RowsBuilt :
          /\ pdf.tr.rows[r].item.parameter_name = pn_pH
          /\ pdf.tr.rows[r].item.value_numeric = Num(90)
          /\ <<r, 3>> \in AlertCells
          /\ pdf.tr.rows[q].item.value_numeric = Num(85)
          /\ pdf.tr.rows[q].status = "OK"

(* C20: after end_section the generator is in the NoSection state: a page  *)
(* break has been emitted and current_section no longer names the section  *)
(* just closed, so that no continuation page can be headed with its name.  *)
C20_EndSectionReturnsToNoSection ==
    last.op = "end_section" =>
        /\ pdf.tr.showPage = 1
        /\ pdf.c.page = {}
        /\ pdf.current_section = NoSection

OccupiedRows(k) == (k + 1) \div 2

(* C21: flush_grid on a partial row-set (grid_position k in {1,2,3}) sets  *)
(* grid_position to 0 and moves y_position to where it would stand had the *)
(* occupied rows been completed by add_chart, with add_chart's chart       *)
(* height and gap: below the row top by one chart height and one gap per   *)
(* occupied row; flushing after three charts leaves the y_position that    *)
(* placing the fourth chart would.                                         *)
C21_FlushEqualsCompletingTheRows ==
    [][ (last'.op = "flush_grid" /\ pdf.grid_position \in 1..3) =>
            /\ pdf'.grid_position = 0
            /\ pdf'.y_position = Val(pdf.grid_row_y)
                                   - OccupiedRows(pdf.grid_position) * (grid_chart_height + v_gap)
            /\ pdf.grid_position = 3 =>
                  pdf'.y_position = add_chart(pdf, Chart).y_position ]_vars

WideCharts == {e \in Drawn : e.what = "wide_chart"}

(* C22: add_wide_chart with a chart never draws while a partial grid row   *)
(* is open: the wide chart is drawn at grid_position = 0, and on the same  *)
(* page its top edge is at or below the bottom edge of every grid chart of *)
(* the row-set that was flushed.                                           *)
C22_WideChartBelowFlushedRowSet ==
    (last.op = "add_wide_chart" /\ ~last.empty) =>
        /\ WideCharts # {}
        /\ pdf.grid_position = 0
        /\ pdf.row_set = <<>>
        /\ \A e \in WideCharts :
              /\ e.grid = 0
              /\ e.bottom + wide_chart_height = e.y
              /\ \A i \in 1..Len(e.above) : e.y <= e.above[i]

C22_WideChartAfterTwoCharts ==
    /\ last.op = "add_wide_chart"
    /\ pdf.tr.showPage = 0
    /\ \E e \in WideCharts : Len(e.above) = 2

FlushedFirst == {e \in Drawn : e.what \in {"table", "specs_header", "specs_rule", "spec"}}

(* C23: in every section generator, whatever add_data_table_with_limits,   *)
(* add_scavenge_drain_table or add_equipment_specs draws is drawn after    *)
(* the grid was flushed: at grid_position = 0 and, on the same page, at or *)
(* below the bottom edge of every chart of the row-set that was pending.   *)
C23_TablesAndSpecsDrawnAfterFlush ==
    \A e \in FlushedFirst :
        /\ e.grid = 0
        /\ \A i \in 1..Len(e.above) : e.y <= e.above[i] /\ e.bottom <= e.above[i]

C23_TableBelowPendingCharts ==
    /\ \E e \in FlushedFirst : e.what = "table" /\ Len(e.above) \in 1..3
    /\ \E e \in FlushedFirst : e.what = "spec"

(* C24: start_content_page(name) without continuation, from any state,     *)
(* sets current_section to name, section_page to 1, grid_position to 0 and *)
(* y_position to header_bar_bottom - 40, whatever their previous values;   *)
(* the header shows the name alone.                                        *)
C24_StartContentPageResetsCursor ==
    [][ last'.op = "start_content_page" =>
            /\ Len(pdf'.tr.drawn) = 1
            /\ pdf'.tr.drawn[1].what = "header"
            /\ \E name \in SectionNames :
                  /\ pdf'.tr.drawn[1].text = <<name>>
                  /\ pdf'.current_section = name
            /\ pdf'.section_page = 1
            /\ pdf'.grid_position = 0
            /\ pdf'.y_position = header_bar_bottom - 40 ]_vars

C24_StartedAfterMultiPageSection ==
    /\ last.op = "start_content_page"
    /\ Len(pdf.c.doc) >= 2
    /\ pdf.grid_row_y # None
    /\ pdf.current_section = "B"

(* C25: start_content_page with is_continuation=True adds exactly 1 to     *)
(* section_page and leaves current_section unchanged whatever section_name *)
(* is passed; the header shows the current section name, 'Page' and the    *)
(* new section_page.                                                       *)
C25_ContinuationKeepsSectionName ==
    [][ last'.op = "continue_content_page" =>
            /\ pdf'.section_page = pdf.section_page + 1
            /\ pdf'.current_section = pdf.current_section
            /\ Len(pdf'.tr.drawn) = 1
            /\ pdf'.tr.drawn[1].what = "header"
            /\ pdf'.tr.drawn[1].text = <<pdf.current_section, "Page", pdf.section_page + 1>> ]_vars

C25_ContinuedUnderAnotherName ==
    /\ last.op = "continue_content_page"
    /\ last.section_name # pdf.current_section
    /\ pdf.section_page = 3
    /\ pdf.tr.drawn[1].text = <<pdf.current_section, "Page", 3>>

Normalized == {c \in Calls : c.fn = "normalize_param_name_for_limits"}
Validated == {c \in Calls : c.fn = "is_valid_limit"}
IsLetter(ch) == \E i \in 1..Len(UpperCase) : UpperCase[i] = ch
(* PH stands in the name as a word of its own *)
PhIsToken(name) ==
    LET u == upper(name)
    IN  \E i \in 1..(Len(u) - 1) :
            /\ u[i] = "P" /\ u[i + 1] = "H"
            /\ i = 1 \/ ~IsLetter(u[i - 1])
            /\ i + 1 = Len(u) \/ ~IsLetter(u[i + 2])

(* C26: normalize_param_name_for_limits returns 'PH' only when PH stands   *)
(* as a token of its own in the name; a name in which PH occurs only       *)
(* inside a longer word (PHOSPHATE, SULPHATE, or any word that starts with *)
(* or embeds PH) gets a key other than 'PH'.                               *)
C26_PhOnlyForPhToken ==
    \A c \in Normalized :
        c.normalized = <<"P", "H">> => PhIsToken(c.parameter_name)

BoilerHint(hint) ==
    Contains(<<"B", "O", "I", "L", "E", "R">>, upper(hint)) \/ Contains(<<"E", "G", "E">>, upper(hint))
ALKALINITY_M == <<"A", "L", "K", "A", "L", "I", "N", "I", "T", "Y", " ", "M">>
ALKALINITY_P == <<"A", "L", "K", "A", "L", "I", "N", "I", "T", "Y", " ", "P">>
TOTAL_ALKALINITY == <<"T", "O", "T", "A", "L", " ", "A", "L", "K", "A", "L", "I", "N", "I", "T", "Y", " ", "(", "A", "S", " ", "C", "A", "C", "O", "sub3", ")">>

(* C27: the equipment-type hint disambiguates alkalinity: 'Alkalinity M'   *)
(* gives 'ALKALINITY M' when the hint contains BOILER or EGE and 'TOTAL    *)
(* ALKALINITY (AS CACO3)' for a potable-water hint or no hint, two         *)
(* different keys; a name 'Alkalinity P', alone or followed by trailing    *)
(* text, gives 'ALKALINITY P' with a boiler hint.                          *)
C27_HintDisambiguatesAlkalinity ==
    /\ ALKALINITY_M # TOTAL_ALKALINITY
    /\ \A c \in Normalized :
          /\ c.parameter_name = ln_alkalinity_m =>
                c.normalized = IF BoilerHint(c.equipment_type)
                               THEN ALKALINITY_M ELSE TOTAL_ALKALINITY
          /\ (StartsWith(c.parameter_name, nn_alkalinity_p) /\ BoilerHint(c.equipment_type)) =>
                c.normalized = ALKALINITY_P

Keywords == {<<"S", "U", "L", "P", "H", "A", "T", "E">>,
             <<"S", "U", "L", "F", "A", "T", "E">>,
             <<"P", "H", "O", "S", "P", "H", "A", "T">>,
             <<"A", "L", "K", "A", "L", "I", "N", "I", "T", "Y">>,
             <<"C", "H", "L", "O", "R", "I", "D", "E">>,
             <<"C", "O", "N", "D", "U", "C", "T", "I", "V">>,
             <<"D", "E", "H", "A">>,
             <<"H", "Y", "D", "R", "A", "Z", "I", "N", "E">>,
             <<"N", "I", "T", "R", "I", "T", "E">>,
             <<"H", "A", "R", "D", "N", "E", "S", "S">>,
             <<"H", "A", "R", "D", "N">>,
             <<"C", "O", "D">>,
             <<"B", "O", "D">>,
             <<"T", "U", "R", "B", "I", "D", "I", "T", "Y">>,
             <<"S", "U", "S", "P", "E", "N", "D", "E", "D">>,
             <<"T", "S", "S">>,
             <<"C", "H", "L", "O", "R", "I", "N", "E">>,
             <<"C", "O", "P", "P", "E", "R">>,
             <<"N", "I", "C", "K", "E", "L">>,
             <<"Z", "I", "N", "C">>,
             <<"T", "D", "S">>,
             <<"D", "I", "S", "S", "O", "L", "V", "E", "D", " ", "S", "O", "L", "I", "D">>}
NoKeywordRule(name) ==
    LET u == upper(name)
    IN  /\ \A k \in Keywords : ~Contains(k, u)
        /\ ~(StartsWith(u, <<"P", "H">>) \/ Contains(<<" ", "P", "H">>, u)
              \/ Contains(<<"P", "H", "-">>, u))
        /\ Contains(<<"I", "R", "O", "N">>, u) => Contains(<<"O", "I", "L">>, u)
(* t is s without its leading and trailing blanks *)
IsTrimOf(t, s) ==
    /\ t # <<>> => t[1] # " " /\ t[Len(t)] # " "
    /\ \E i \in 0..(Len(s) - Len(t)) :
          /\ SubSeq(s, i + 1, i + Len(t)) = t
          /\ \A k \in (1..i) \cup ((i + Len(t) + 1)..Len(s)) : s[k] = " "

(* C28: when no keyword rule matches a non-empty name, the result is       *)
(* exactly the uppercased name without its leading and trailing            *)
(* whitespace; an empty or missing name yields the empty string.           *)
C28_FallbackIsUppercasedTrimmedName ==
    \A c \in Normalized :
        /\ c.parameter_name = <<>> => c.normalized = <<>>
        /\ (c.parameter_name # <<>> /\ NoKeywordRule(c.parameter_name)) =>
              /\ IsTrimOf(c.normalized, upper(c.parameter_name))
              /\ \A i \in 1..Len(c.normalized) : IndexIn(LowerCase, c.normalized[i]) = 0

C28_PaddedNameTrimmed ==
    \E c \in Normalized :
        /\ c.parameter_name = nn_padded
        /\ c.normalized = <<"V", "I", "S", "C", "O", "S", "I", "T", "Y">>

IsNumber(x) == x.t \in {"num", "numstr"}

(* C29: is_valid_limit(low, high) is True exactly when both arguments are  *)
(* present, both convert to numbers, both are >= 0 and low <= high (equal  *)
(* and zero bounds are valid); it is False for None, for non-numeric       *)
(* values, for any negative bound and for high < low.                      *)
C29_ValidExactlyForNonNegativeOrderedNumbers ==
    \A c \in Validated :
        c.result = ( /\ c.ideal_low # None /\ c.ideal_high # None
                     /\ IsNumber(Val(c.ideal_low)) /\ IsNumber(Val(c.ideal_high))
                     /\ Val(c.ideal_low).v >= 0 /\ Val(c.ideal_high).v >= 0
                     /\ Val(c.ideal_low).v <= Val(c.ideal_high).v )

Unresolved(item) == get_limits_for_pdf(catalog, eq_POTABLE, item.parameter_name) = NoResult

(* C30: when get_limits_for_pdf resolves no limit entry for a row's         *)
(* parameter, the data table renders the row with limits '-' and status    *)
(* 'OK', records no alert cell for it and raises no error, and every other *)
(* record that has a value still gets its row.                             *)
C30_UnresolvedLimitRowIsOk ==
    last.op = "add_data_table_with_limits" =>
        /\ ~last.raised
        /\ \A r \in RowsBuilt :
              Unresolved(pdf.tr.rows[r].item) =>
                  /\ pdf.tr.rows[r].limits = <<"-">>
                  /\ pdf.tr.rows[r].status = "OK"
                  /\ \A cell \in AlertCells : cell[1] # r
        /\ \A i \in 1..Len(pdf.tr.data) :
              pdf.tr.data[i].value_numeric.t # "None" =>
                  \E r \in RowsBuilt : pdf.tr.rows[r].item = pdf.tr.data[i]

C30_AlertAfterUnresolvedRow ==
    /\ last.op = "add_data_table_with_limits"
    /\ catalog = Catalog1
    /\ \E r, s \in RowsBuilt :
          /\ r < s
          /\ pdf.tr.rows[r].item.parameter_name = pn_viable
          /\ Unresolved(pdf.tr.rows[r].item)
          /\ pdf.tr.rows[r].limits = <<"-">>
          /\ pdf.tr.rows[s].status = "ALERT"
          /\ <<s, 3>> \in AlertCells

GridCharts == {e \in Drawn : e.what = "chart"}

(* C31: every chart drawn by add_chart, in any of the four grid slots and  *)
(* after any preceding operations, has its bottom edge at or above the     *)
(* bottom margin: the fit check made at slot 0 covers the bottom row of    *)
(* the row-set as well as the top row.                                     *)
C31_GridChartAboveBottomMargin ==
    last.op = "add_chart" =>
        \A e \in GridCharts : e.text[1] \in 0..3 /\ e.bottom >= bottom_margin

(* C32: whenever grid_position > 0, grid_row_y is set and is the           *)
(* y_position recorded at the slot-0 placement on the page being drawn:    *)
(* no sequence of operations leaves grid_position > 0 with a row top that  *)
(* belongs to an earlier page.                                             *)
C32_OpenRowBelongsToCurrentPage ==
    pdf.grid_position > 0 =>
        /\ pdf.grid_row_y # None
        /\ pdf.row_page = Len(pdf.c.doc)
        /\ Len(pdf.row_set) = pdf.grid_position

AllPages == {pdf.c.doc[n] : n \in 1..Len(pdf.c.doc)} \cup {pdf.c.page}

(* C33: the cover page, the back cover and the first page of every section *)
(* are each drawn on a page of their own: draw_back_cover and every        *)
(* non-continuation start_content_page run only when nothing has been      *)
(* drawn on the current page since the last showPage, so no page carries   *)
(* the drawings of two of them, whichever sections are selected, skipped   *)
(* or fail.                                                                *)
C33_OnePageOneOwner ==
    \A page \in AllPages : Cardinality(page) <= 1

Headings == {e \in Drawn : e.what \in {"subsection", "text"}}

(* C34: in every section generator, text and subsection headings are never *)
(* drawn while a partial grid row is open: whenever add_subsection or      *)
(* add_text draws, grid_position = 0; the 'Hotwell' heading of             *)
(* generate_boiler_section is drawn only after the boiler charts' row-set  *)
(* has been completed or flushed.                                         *)
C34_HeadingsDrawnWithGridClosed ==
    \A e \in Headings : e.grid = 0

HeadersOf(p) == SelectSeq(p.tr.drawn, LAMBDA e : e.what = "header")

(* C35: inside an open section, section_page is 1 plus the number of page  *)
(* breaks taken since the section was opened: every showPage issued by a   *)
(* placement operation is followed by start_content_page(current_section,  *)
(* is_continuation=True), so each continuation header shows the ordinal of *)
(* its page within the section.                                            *)
C35_SectionPageCountsPageBreaks ==
    [][ (section_open /\ last'.op \in PlacementOps) =>
            /\ pdf'.tr.start = pdf'.tr.showPage
            /\ Len(pdf'.c.doc) = Len(pdf.c.doc) + pdf'.tr.showPage
            /\ pdf'.section_page = pdf.section_page + pdf'.tr.showPage
            /\ pdf'.current_section = pdf.current_section
            /\ Len(HeadersOf(pdf')) = pdf'.tr.showPage
            /\ \A k \in 1..Len(HeadersOf(pdf')) :
                  HeadersOf(pdf')[k].text = <<pdf.current_section, "Page", pdf.section_page + k>> ]_vars

C35_FourthPageOfSection ==
    /\ last.op = "add_data_table_with_limits"
    /\ pdf.tr.showPage = 3
    /\ pdf.section_page = 4
    /\ HeadersOf(pdf)[3].text = <<"A", "Page", 4>>

(* C36: in add_data_table_with_limits the highlight lands on the row that  *)
(* caused it: records with a null value get no row and consume no row      *)
(* index, alert cells come in pairs (value column 3, status column 6), and *)
(* on every page a row is highlighted if and only if its status cell reads *)
(* 'ALERT' and its value cell ends with '*'.                               *)
C36_HighlightOnTheAlertRow ==
    last.op = "add_data_table_with_limits" =>
        /\ \A r \in RowsBuilt : pdf.tr.rows[r].item.value_numeric.t # "None"
        /\ \A k \in Pages :
              LET page == pdf.tr.tables[k]
              IN  /\ page.highlight \subseteq ({3, 6} \X (1..Len(page.rows)))
                  /\ \A j \in 1..Len(page.rows) :
                        /\ (<<3, j>> \in page.highlight) <=> (<<6, j>> \in page.highlight)
                        /\ (<<3, j>> \in page.highlight) <=>
                              (page.rows[j].status = "ALERT" /\ page.rows[j].value.star)
                        /\ (page.rows[j].status = "ALERT") <=> page.rows[j].value.star

C36_HighlightAfterSkippedNulls ==
    /\ last.op = "add_data_table_with_limits"
    /\ Len(pdf.tr.tables) >= 2
    /\ <<3, 1>> \in pdf.tr.tables[1].highlight
    /\ pdf.tr.tables[1].rows[1].status = "ALERT"
    /\ \E i \in 1..Len(pdf.tr.data) :
          /\ pdf.tr.data[i].value_numeric.t = "None"
          /\ pdf.tr.data[i].measurement_date.day
                > pdf.tr.tables[1].rows[1].item.measurement_date.day

(* the same catalog rows in another order: two rows exchanged, or all      *)
(* rows reversed                                                           *)
Exchanged(cat, i, j) ==
    [k \in 1..Len(cat) |-> IF k = i THEN cat[j] ELSE IF k = j THEN cat[i] ELSE cat[k]]
Reordered(cat) ==
    {Exchanged(cat, i, j) : i, j \in 1..Len(cat)}
        \cup {[k \in 1..Len(cat) |-> cat[Len(cat) + 1 - k]]}

(* C37: the result of get_limits_for_pdf depends only on the contents of   *)
(* the limit map, not on its iteration order: every ordering of the same   *)
(* entries yields the same (lower, upper) pair, also when several keys     *)
(* pass the fuzzy containment test with different bounds.                  *)
C37_LookupIndependentOfMapOrder ==
    \A c \in Calls :
        \A other \in Reordered(c.catalog) :
            get_limits_for_pdf(other, c.equipment_type, c.parameter_name) = c.limits

(* C38: a wide chart always fits: whenever add_wide_chart is called with a *)
(* chart, the chart is drawn entirely between the top content offset and   *)
(* the bottom margin, and afterwards y_position is the chart's bottom edge *)
(* less the gap of 15 and grid_position is 0.                              *)
C38_WideChartFitsOnPage ==
    (last.op = "add_wide_chart" /\ ~last.empty) =>
        /\ Cardinality(WideCharts) = 1
        /\ \A e \in WideCharts :
              /\ e.bottom >= bottom_margin
              /\ e.bottom + wide_chart_height <= top_offset
              /\ pdf.y_position = e.bottom - v_gap
        /\ pdf.grid_position = 0

C38_WideChartMovedToNextPage ==
    /\ last.op = "add_wide_chart"
    /\ pdf.tr.showPage = 1
    /\ \E e \in WideCharts : e.bottom = top_offset - wide_chart_height

(* C39: limit bounds are inclusive in the data table: a row is flagged     *)
(* (alert cells recorded, status 'ALERT') if and only if limits were       *)
(* resolved and the value is strictly below the lower bound or strictly    *)
(* above the upper bound; a value equal to either bound is never flagged.  *)
C39_BoundsAreInclusive ==
    last.op = "add_data_table_with_limits" =>
        \A r \in RowsBuilt :
            LET item == pdf.tr.rows[r].item
                lim == get_limits_for_pdf(catalog, eq_POTABLE, item.parameter_name)
                outside == /\ lim.low # None /\ lim.high # None
                           /\ item.value_numeric.t = "num"
                           /\ \/ item.value_numeric.v < Val(lim.low)
                              \/ item.value_numeric.v > Val(lim.high)
            IN  /\ (pdf.tr.rows[r].status = "ALERT") <=> outside
                /\ ({<<r, 3>>, <<r, 6>>} \subseteq AlertCells) <=> outside
                /\ (\E cell \in AlertCells : cell[1] = r) <=> outside

C39_ValuesOnBothBoundsNotFlagged ==
    /\ last.op = "add_data_table_with_limits"
    /\ \E q, r, s \in RowsBuilt :
          /\ pdf.tr.rows[q].item.value_numeric = Num(65)
          /\ pdf.tr.rows[q].limits = <<65, "-", 85>>
          /\ pdf.tr.rows[q].status = "OK"
          /\ pdf.tr.rows[r].item.value_numeric = Num(85)
          /\ pdf.tr.rows[r].limits = <<65, "-", 85>>
          /\ pdf.tr.rows[r].status = "OK"
          /\ pdf.tr.rows[s].status = "ALERT"

====
